---- MODULE Spec2Model ----
(***************************************************************************)
(* A model of the trading dashboard: the relational store behind the CRUD  *)
(* API, the watchlist page with its position sizer (calcRisk), the         *)
(* portfolio page with its per-position cards, totals, rollups and         *)
(* rankings, and the trade journal page with its rollups.                  *)
(*                                                                         *)
(* Money is held in integer cents.  Every quantity the code computes by a  *)
(* floating-point division is held as an exact rational [num, den] in      *)
(* lowest terms, and toFixed(2) is modelled as rounding to the nearest     *)
(* hundredth (ties away from zero).                                        *)
(***************************************************************************)
EXTENDS Integers, Sequences, FiniteSets, TLC

VARIABLES
    nodeEnv,        \* process.env.NODE_ENV of the server
    dbWatchlist,    \* table watchlist_items, in creation order
    dbPortfolio,    \* table portfolio_items, in creation order
    dbTrades,       \* table trades, in creation order
    dbAlerts,       \* table alerts, in creation order
    dbSettings,     \* table settings, in creation order
    identity,       \* next generated identity of each table
    patchBody,      \* body of the last PATCH /api/settings request
    settings,       \* watchlist page: data of the /api/settings query
    calcTicker,     \* watchlist page: item of the open sizing dialog
    dialog,         \* watchlist page: what the sizing dialog renders
    portfolio,      \* portfolio page: data of the /api/portfolio query
    snapshot,       \* portfolio page: data of each ticker's snapshot query
    cards,          \* portfolio page: the rendered PortfolioItemCards
    totals,         \* portfolio page: the rendered headline totals
    holdingsPnlData,    \* portfolio page: the rendered P&L ranking
    sectorChartData,    \* portfolio page: the rendered by-sector rollup
    holdingsValueData,  \* portfolio page: the rendered value ranking
    showAdd,        \* the showAdd state of the portfolio and trades pages
    trades,         \* trades page: data of the /api/trades query
    tradeTotals,    \* trades page: the rendered headline totals
    tradeRows,      \* trades page: ids of the rendered trade history
    tradesByDate,   \* trades page: the by-date rollup of the last render
    cumFees,        \* trades page: cumFees as the last render left it
    feesOverTime,   \* trades page: the rendered cumulative fee series
    tickerData,     \* trades page: the rendered by-ticker volume rollup
    route,          \* the location of the browser: the page that is mounted
    lastResponse,   \* the last request whose answer is recorded, with the answer
    dbChat,         \* table chat_messages, in creation order
    chat,           \* POST /api/chat: where each request is, and its locals
    calls,          \* getSettings, updateSettings: where each call is
    detail,         \* stock-detail page: whether it is mounted, its chart query
    effects,        \* stock-detail page: the runs of the chart effect
    chartRef,       \* stock-detail page: chartRef.current
    charts          \* the chart instances created, and whether each is removed

vars == <<nodeEnv, dbWatchlist, dbPortfolio, dbTrades, dbAlerts, dbSettings,
          identity, patchBody, settings, calcTicker, dialog,
          portfolio, snapshot, cards, totals, holdingsPnlData,
          sectorChartData, holdingsValueData, showAdd,
          trades, tradeTotals, tradeRows, tradesByDate, cumFees, feesOverTime,
          tickerData,
          route, lastResponse, dbChat, chat, calls,
          detail, effects, chartRef, charts>>

serverVars == <<nodeEnv, dbWatchlist, dbPortfolio, dbTrades, dbAlerts,
                dbSettings, identity, patchBody>>
watchlistPageVars == <<settings, calcTicker, dialog>>
portfolioPageVars == <<portfolio, snapshot, cards, totals, holdingsPnlData,
                       sectorChartData, holdingsValueData>>
tradesPageVars == <<trades, tradeTotals, tradeRows, tradesByDate, cumFees,
                    feesOverTime, tickerData>>
requestVars == <<dbChat, chat, calls>>
chartVars == <<detail, effects, chartRef, charts>>

-----------------------------------------------------------------------------
(* JavaScript values *)

Null == [null |-> TRUE]
Undefined == [undefined |-> TRUE]

-----------------------------------------------------------------------------
(* Exact arithmetic for the code's number operations *)

Abs(x) == IF x < 0 THEN -x ELSE x

RECURSIVE GCD(_, _)
GCD(a, b) == IF b = 0 THEN a ELSE GCD(b, a % b)

\* The rational n/d (d # 0) in lowest terms with a positive denominator.
Rat(n, d) ==
    LET g == GCD(Abs(n), Abs(d))
        s == IF d < 0 THEN -1 ELSE 1
    IN  [num |-> (s * n) \div g, den |-> (s * d) \div g]

RatInt(i) == [num |-> i, den |-> 1]
RatMul(a, b) == Rat(a.num * b.num, a.den * b.den)
RatDiv(a, b) == Rat(a.num * b.den, a.den * b.num)

\* Math.floor
Floor(r) == r.num \div r.den

\* The integer nearest to r, ties away from zero (the rounding of toFixed).
RoundHalfAway(r) ==
    LET m == (2 * Abs(r.num) + r.den) \div (2 * r.den)
    IN  IF r.num < 0 THEN -m ELSE m

\* Number.prototype.toFixed(2), read back as a number.
toFixed2(r) == Rat(RoundHalfAway(RatMul(r, RatInt(100))), 100)

\* toFixed(2) of an amount of dollars that is held in cents.
toFixedCents(r) == RoundHalfAway(r)

-----------------------------------------------------------------------------
(* Bounds and input domains *)

\* Records created through the API get identities 1..MaxId; a table accepts
\* no further POST once its identity counter has passed MaxId.
MaxId == 2

NodeEnvs == {"development", "production"}

\* The routes of the pages of the model: watchlist, portfolio and trades.
Routes == {"/", "/portfolio", "/trades"}

\* Values of the watchlist form, in cents: stop losses below, at and above
\* the entry target, take-profit targets below and above it.
EntryTargets == {3}
StopLosses == {1, 3, 5}
TakeProfits == {1, 5}

\* Account sizes of the settings form, in cents, and its risk percentages
\* (the form's risk input has min 0.1 and max 10).
AccountSizes == {50, 150}
RiskPercentages == {2, 10}

\* Values of a flatFeePerTrade key sent along with a settings update.
SuppliedFees == {0, 1000}

-----------------------------------------------------------------------------
(* Storage: server/storage.ts over shared/schema.ts *)

\* db.insert(table).values(rows): generated identities, creation order kept.
InsertAll(table, nextId, rows) ==
    table \o [k \in 1..Len(rows) |-> [id |-> nextId + k - 1] @@ rows[k]]

\* orderBy(desc(createdAt)): newest first.
NewestFirst(table) == [k \in 1..Len(table) |-> table[Len(table) + 1 - k]]

getWatchlist(db) == NewestFirst(db)

addWatchlistItem(db, nextId, item) == InsertAll(db, nextId, <<item>>)

\* getSettings: the first row, created with the defaults when the table is
\* empty.  Yields the table after the call and the row returned.
getSettings_Insert(db, nextId) ==
    LET result == [id |-> nextId, accountSize |-> 2500000,
                   riskPercentage |-> 2, email |-> "",
                   analysisInterval |-> 60]
    IN  [db |-> Append(db, result), result |-> result, nextId |-> nextId + 1]
getSettings(db, nextId) ==
    IF Len(db) = 0
    THEN LET result == [id |-> nextId, accountSize |-> 2500000,
                        riskPercentage |-> 2, email |-> "",
                        analysisInterval |-> 60]
         IN  [db |-> <<result>>, result |-> result, nextId |-> nextId + 1]
    ELSE [db |-> db, result |-> db[1], nextId |-> nextId]

\* db.update(settings).set(s).where(eq(settings.id, current.id))
updateSettings(db, nextId, s) ==
    LET got == getSettings(db, nextId)
        current == got.result
        set(row) == [f \in DOMAIN row |->
                        IF f \in DOMAIN s THEN s[f] ELSE row[f]]
    IN  [db |-> [k \in 1..Len(got.db) |->
                    IF got.db[k].id = current.id THEN set(got.db[k])
                    ELSE got.db[k]],
         result |-> set(current),
         nextId |-> got.nextId]

\* The default row of getSettings.
DefaultSettings ==
    [accountSize |-> 2500000, riskPercentage |-> 2, email |-> "",
     analysisInterval |-> 60]

\* The calls of getSettings and updateSettings that may be in progress
\* together.
SettingsCalls == {1, 2}

\* insertSettingsSchema.partial().safeParse(body).data: zod keeps the keys
\* of the schema and strips every other key of the body.
SettingsColumns == {"accountSize", "riskPercentage", "email", "analysisInterval"}
parseSettingsPatch(body) ==
    [f \in (DOMAIN body) \cap SettingsColumns |-> body[f]]

-----------------------------------------------------------------------------
(* Seed data of POST /api/seed *)

SeedWatchlist == <<
    [ticker |-> "RY.TO", entryTarget |-> 14550, stopLoss |-> 14000,
     takeProfit |-> 15800, signal |-> "BUY", sector |-> "Financials"],
    [ticker |-> "SHOP.TO", entryTarget |-> 10500, stopLoss |-> 9500,
     takeProfit |-> 12500, signal |-> "WATCH", sector |-> "Technology"],
    [ticker |-> "CNR.TO", entryTarget |-> 16500, stopLoss |-> 15800,
     takeProfit |-> 18000, signal |-> "HOLD", sector |-> "Industrials"],
    [ticker |-> "ENB.TO", entryTarget |-> 5200, stopLoss |-> 4950,
     takeProfit |-> 5700, signal |-> "BUY", sector |-> "Energy"],
    [ticker |-> "TD.TO", entryTarget |-> 8200, stopLoss |-> 7800,
     takeProfit |-> 9000, signal |-> "SELL", sector |-> "Financials"] >>

SeedPortfolio == <<
    [ticker |-> "RY.TO", shares |-> 50, avgCost |-> 14230,
     currentPrice |-> 14785, sector |-> "Financials"],
    [ticker |-> "CNR.TO", shares |-> 30, avgCost |-> 16050,
     currentPrice |-> 16820, sector |-> "Industrials"],
    [ticker |-> "BCE.TO", shares |-> 100, avgCost |-> 4875,
     currentPrice |-> 4690, sector |-> "Telecom"],
    [ticker |-> "BMO.TO", shares |-> 40, avgCost |-> 12500,
     currentPrice |-> 13140, sector |-> "Financials"] >>

SeedTrades == <<
    [type |-> "BUY", ticker |-> "RY.TO", shares |-> 50, price |-> 14230,
     fees |-> 695, date |-> "2025-12-15"],
    [type |-> "BUY", ticker |-> "CNR.TO", shares |-> 30, price |-> 16050,
     fees |-> 695, date |-> "2025-12-20"],
    [type |-> "SELL", ticker |-> "SU.TO", shares |-> 75, price |-> 5520,
     fees |-> 695, date |-> "2026-01-08"],
    [type |-> "BUY", ticker |-> "BCE.TO", shares |-> 100, price |-> 4875,
     fees |-> 695, date |-> "2026-01-15"],
    [type |-> "BUY", ticker |-> "BMO.TO", shares |-> 40, price |-> 12500,
     fees |-> 695, date |-> "2026-01-28"] >>

SeedAlerts == <<
    [ticker |-> "RY.TO", signalType |-> "BUY", urgency |-> "high",
     isRead |-> FALSE],
    [ticker |-> "SHOP.TO", signalType |-> "WATCH", urgency |-> "medium",
     isRead |-> FALSE],
    [ticker |-> "ENB.TO", signalType |-> "BUY", urgency |-> "low",
     isRead |-> FALSE] >>

\* res.status(status).json(body); res.json(body) answers with status 200.
Answer(status, body) == [status |-> status, body |-> body]

\* A request, and a request with its answer.
Request(method, path) == [method |-> method, path |-> path]
RequestId(method, path, id) == [method |-> method, path |-> path, id |-> id]
AnswerTo(request, status, body) ==
    [request |-> request, status |-> status, body |-> body]

\* POST /api/seed is refused in production ...
seedDisabled(env) == env = "production"

\* ... and does nothing once the watchlist has an item.
alreadySeeded_Never(existing) == FALSE
alreadySeeded(existing) == Len(existing) > 0

-----------------------------------------------------------------------------
(* Watchlist page: the position sizer *)

\* The flat commission of the sizer, in cents.
FlatFee == 695

\* riskPerShare <= 0: no sizing.  (invalidStop_OnlyEqual and the other
\* definitions named X_Variant below are faulty variants of the definition
\* X that follows them.)
invalidStop_OnlyEqual(riskPerShare) == riskPerShare = 0
invalidStop(riskPerShare) == riskPerShare <= 0

\* settings.accountSize * (settings.riskPercentage / 100)
riskAmountOf_Negated(s) ==
    RatMul(RatInt(-s.accountSize),
           RatDiv(RatInt(s.riskPercentage), RatInt(100)))
riskAmountOf(s) ==
    RatMul(RatInt(s.accountSize),
           RatDiv(RatInt(s.riskPercentage), RatInt(100)))

\* Math.floor(riskAmount / riskPerShare)
sharesOf_Rounded(riskAmount, riskPerShare) ==
    RoundHalfAway(RatDiv(riskAmount, RatInt(riskPerShare)))
sharesOf(riskAmount, riskPerShare) ==
    Floor(RatDiv(riskAmount, RatInt(riskPerShare)))

\* shares * item.entryTarget + 6.95
totalCostOf_NoFee(shares, item) == shares * item.entryTarget
totalCostOf(shares, item) == shares * item.entryTarget + FlatFee

\* shares * (item.takeProfit - item.entryTarget) - 6.95
potentialProfitOf_Clamped(shares, item) ==
    LET p == shares * (item.takeProfit - item.entryTarget) - FlatFee
    IN  IF p < 0 THEN 0 ELSE p
potentialProfitOf(shares, item) ==
    shares * (item.takeProfit - item.entryTarget) - FlatFee

\* (item.takeProfit - item.entryTarget) / riskPerShare
rrOf_Clamped(item, riskPerShare) ==
    IF item.takeProfit < item.entryTarget THEN RatInt(0)
    ELSE RatDiv(RatInt(item.takeProfit - item.entryTarget),
                RatInt(riskPerShare))
rrOf(item, riskPerShare) ==
    RatDiv(RatInt(item.takeProfit - item.entryTarget), RatInt(riskPerShare))

calcRisk(item, s) ==
    IF s = Undefined THEN Null
    ELSE
    LET riskPerShare == item.entryTarget - item.stopLoss IN
    IF invalidStop(riskPerShare) THEN Null
    ELSE
    LET riskAmount == riskAmountOf(s)
        shares == sharesOf(riskAmount, riskPerShare)
        totalCost == totalCostOf(shares, item)
        potentialProfit == potentialProfitOf(shares, item)
        rr == rrOf(item, riskPerShare)
    IN  [shares |-> shares, riskAmount |-> riskAmount,
         totalCost |-> totalCost, potentialProfit |-> potentialProfit,
         rr |-> rr]

\* The body of the position-sizing dialog: nothing while no item is chosen
\* or the settings are not loaded, else the invalid-stop-loss message or the
\* sizing figures as printed.
InvalidStopLoss == "Invalid stop loss (must be below entry)"

SizingDialog(item, s) ==
    IF item = Null \/ s = Undefined
    THEN [show |-> "nothing", calc |-> Null, text |-> Null]
    ELSE LET calc == calcRisk(item, s) IN
         IF calc = Null
         THEN [show |-> InvalidStopLoss, calc |-> Null, text |-> Null]
         ELSE [show |-> "figures", calc |-> calc,
               text |-> [accountSize |-> s.accountSize,
                         riskPercentage |-> s.riskPercentage,
                         riskAmount |-> toFixedCents(calc.riskAmount),
                         shares |-> calc.shares,
                         totalCost |-> toFixedCents(RatInt(calc.totalCost)),
                         potentialProfit |->
                             toFixedCents(RatInt(calc.potentialProfit)),
                         rr |-> toFixed2(calc.rr)]]

-----------------------------------------------------------------------------
(* Portfolio page *)

\* Inputs of the portfolio form: tickers, share counts and prices in cents.
PortfolioTickers == {"RY.TO"}
ShareCounts == {0, 2}
AvgCosts == {0, 3}
StoredPrices == {2, 4}

\* What a snapshot query can hold: no data while pending; null after a
\* response that is not OK (503 without an API key, 502 on an upstream
\* error); else the JSON of the response, with or without a ticker object,
\* whose day close and last trade price may be missing or zero.
Pending == [status |-> "pending"]
Loaded(data) == [status |-> "success", data |-> data]
DataOf(q) == IF q.status = "success" THEN q.data ELSE Undefined

DayValues == {Undefined, [c |-> 0], [c |-> 5]}
LastTradeValues == {Undefined, [p |-> 0], [p |-> 6]}
SnapshotResponses ==
    {Null, [status |-> "NOT_FOUND"]}
    \cup {[ticker |-> [day |-> d, lastTrade |-> l]] :
             d \in DayValues, l \in LastTradeValues}

\* The tickers a card can ask a snapshot for: those of the form and of the
\* seed.
QuotedTickers ==
    PortfolioTickers \cup {SeedPortfolio[k].ticker : k \in 1..Len(SeedPortfolio)}

getPortfolio(db) == NewestFirst(db)

addPortfolioItem(db, nextId, item) == InsertAll(db, nextId, <<item>>)

\* obj?.field
Has(obj, field) == obj \notin {Null, Undefined} /\ field \in DOMAIN obj
Get(obj, field) == IF Has(obj, field) THEN obj[field] ELSE Undefined

\* snapshot?.ticker?.day?.c || snapshot?.ticker?.lastTrade?.p || stored
effectivePrice_PresentOnly(snap, stored) ==
    LET day == Get(Get(snap, "ticker"), "day")
        lastTrade == Get(Get(snap, "ticker"), "lastTrade")
    IN  IF Has(day, "c") THEN day.c
        ELSE IF Has(lastTrade, "p") THEN lastTrade.p
        ELSE stored
effectivePrice_NoFallback(snap, stored) ==
    LET day == Get(Get(snap, "ticker"), "day")
        lastTrade == Get(Get(snap, "ticker"), "lastTrade")
    IN  IF Has(day, "c") /\ day.c # 0 THEN day.c
        ELSE IF Has(lastTrade, "p") /\ lastTrade.p # 0 THEN lastTrade.p
        ELSE 0
effectivePrice(snap, stored) ==
    LET day == Get(Get(snap, "ticker"), "day")
        lastTrade == Get(Get(snap, "ticker"), "lastTrade")
    IN  IF Has(day, "c") /\ day.c # 0 THEN day.c
        ELSE IF Has(lastTrade, "p") /\ lastTrade.p # 0 THEN lastTrade.p
        ELSE stored

\* cost > 0 ? (pnl / cost) * 100 : 0
returnPct(pnl, cost) ==
    IF cost > 0
    THEN RatMul(RatDiv(RatInt(pnl), RatInt(cost)), RatInt(100))
    ELSE RatInt(0)

PortfolioItemCard_StoredPrice(item, q) ==
    LET currentPrice == effectivePrice(DataOf(q), item.currentPrice)
        value == item.shares * item.currentPrice
        cost == item.shares * item.avgCost
        pnl == value - cost
        ret == returnPct(pnl, cost)
    IN  [id |-> item.id, currentPrice |-> currentPrice, value |-> value,
         cost |-> cost, pnl |-> pnl, ret |-> ret,
         live |-> DataOf(q) \notin {Null, Undefined}]
PortfolioItemCard(item, q) ==
    LET currentPrice == effectivePrice(DataOf(q), item.currentPrice)
        value == item.shares * currentPrice
        cost == item.shares * item.avgCost
        pnl == value - cost
        ret == returnPct(pnl, cost)
    IN  [id |-> item.id, currentPrice |-> currentPrice, value |-> value,
         cost |-> cost, pnl |-> pnl, ret |-> ret,
         live |-> DataOf(q) \notin {Null, Undefined}]

\* The cards of the holdings list, one per item of the query data in its
\* order; none while the query has no data.
RenderCards(q, snaps) ==
    IF q.status # "success" THEN <<>>
    ELSE [k \in 1..Len(q.data) |->
             PortfolioItemCard(q.data[k], snaps[q.data[k].ticker])]

\* list.reduce((sum, p) => sum + p.shares * p[field], 0), from item k on
RECURSIVE ReduceSum(_, _, _)
ReduceSum(list, field, k) ==
    IF k > Len(list) THEN 0
    ELSE list[k].shares * list[k][field] + ReduceSum(list, field, k + 1)

Totals_GuardOnValue(q) ==
    LET totalValue == IF q.status = "success"
                      THEN ReduceSum(q.data, "currentPrice", 1) ELSE 0
        totalCost == IF q.status = "success"
                     THEN ReduceSum(q.data, "avgCost", 1) ELSE 0
        totalPnl == totalValue - totalCost
        totalReturn == IF totalValue > 0
                       THEN RatMul(RatDiv(RatInt(totalPnl), RatInt(totalCost)),
                                   RatInt(100))
                       ELSE RatInt(0)
    IN  [totalValue |-> totalValue, totalCost |-> totalCost,
         totalPnl |-> totalPnl, totalReturn |-> totalReturn]
Totals(q) ==
    LET totalValue == IF q.status = "success"
                      THEN ReduceSum(q.data, "currentPrice", 1) ELSE 0
        totalCost == IF q.status = "success"
                     THEN ReduceSum(q.data, "avgCost", 1) ELSE 0
        totalPnl == totalValue - totalCost
        totalReturn == returnPct(totalPnl, totalCost)
    IN  [totalValue |-> totalValue, totalCost |-> totalCost,
         totalPnl |-> totalPnl, totalReturn |-> totalReturn]

\* One entry of the P&L ranking.
PnlEntry(item) ==
    LET pnl == (item.currentPrice - item.avgCost) * item.shares
        ret == IF item.avgCost > 0
               THEN RatMul(RatDiv(RatInt(item.currentPrice - item.avgCost),
                                  RatInt(item.avgCost)),
                           RatInt(100))
               ELSE RatInt(0)
    IN  [ticker |-> item.ticker,
         pnl |-> toFixedCents(RatInt(pnl)),
         returnPct |-> toFixed2(ret),
         fill |-> IF pnl >= 0 THEN "#10b981" ELSE "#ef4444"]

\* Array.prototype.sort((a, b) => b.pnl - a.pnl): stable, descending.
RECURSIVE SortByPnlDesc(_)
SortByPnlDesc(list) ==
    IF Len(list) <= 1 THEN list
    ELSE LET last == list[Len(list)]
             front == SortByPnlDesc(SubSeq(list, 1, Len(list) - 1))
             keep == {k \in 1..Len(front) : front[k].pnl >= last.pnl}
             n == Cardinality(keep)
         IN  SubSeq(front, 1, n) \o <<last>> \o SubSeq(front, n + 1, Len(front))

HoldingsPnlData(q) ==
    IF q.status # "success" THEN <<>>
    ELSE SortByPnlDesc([k \in 1..Len(q.data) |-> PnlEntry(q.data[k])])

\* Array.prototype.sort((a, b) => b[field] - a[field]): stable, descending.
RECURSIVE SortDescBy(_, _)
SortDescBy(list, field) ==
    IF Len(list) <= 1 THEN list
    ELSE LET last == list[Len(list)]
             front == SortDescBy(SubSeq(list, 1, Len(list) - 1), field)
             keep == {k \in 1..Len(front) : front[k][field] >= last[field]}
             n == Cardinality(keep)
         IN  SubSeq(front, 1, n) \o <<last>> \o SubSeq(front, n + 1, Len(front))

\* acc[key] = (acc[key] || 0) + val on an object with string keys, held as
\* its entries in the order of Object.entries (the order the keys were
\* first set in).
Accumulate(acc, key, val) ==
    IF \E k \in 1..Len(acc) : acc[k].key = key
    THEN [k \in 1..Len(acc) |->
             IF acc[k].key = key
             THEN [key |-> key, value |-> acc[k].value + val]
             ELSE acc[k]]
    ELSE Append(acc, [key |-> key, value |-> val])

\* p.sector || "Other".  A NULL sector column is a row without the field,
\* which the page reads as null.
sectorOf_AsStored(p) == IF Has(p, "sector") THEN p.sector ELSE "null"
sectorOf(p) ==
    IF ~Has(p, "sector") THEN "Other"
    ELSE IF p.sector = "" THEN "Other"
    ELSE p.sector

\* portfolio.reduce(...) of sectorMap, from item k on
RECURSIVE SectorMapFrom(_, _, _)
SectorMapFrom(list, k, acc) ==
    IF k > Len(list) THEN acc
    ELSE SectorMapFrom(list, k + 1,
             Accumulate(acc, sectorOf(list[k]),
                        list[k].shares * list[k].currentPrice))

SECTOR_COLORS ==
    [Financials |-> "#3b82f6", Technology |-> "#8b5cf6", Energy |-> "#f59e0b",
     Industrials |-> "#64748b", Materials |-> "#f97316", Telecom |-> "#14b8a6",
     Healthcare |-> "#ec4899", Utilities |-> "#84cc16", Consumer |-> "#f43f5e",
     Other |-> "#9ca3af"] @@ ("Real Estate" :> "#06b6d4")

\* SECTOR_COLORS[name] || "#9ca3af"
sectorColor(name) ==
    IF name \in DOMAIN SECTOR_COLORS THEN SECTOR_COLORS[name] ELSE "#9ca3af"

SectorChartData(q) ==
    IF q.status # "success" THEN <<>>
    ELSE LET sorted == SortDescBy(SectorMapFrom(q.data, 1, <<>>), "value")
         IN  [k \in 1..Len(sorted) |->
                 [name |-> sorted[k].key,
                  value |-> toFixedCents(RatInt(sorted[k].value)),
                  color |-> sectorColor(sorted[k].key)]]

HoldingsValueData(q) ==
    IF q.status # "success" THEN <<>>
    ELSE SortDescBy(
             [k \in 1..Len(q.data) |->
                 [ticker |-> q.data[k].ticker,
                  value |-> toFixedCents(
                      RatInt(q.data[k].shares * q.data[k].currentPrice)),
                  cost |-> toFixedCents(
                      RatInt(q.data[k].shares * q.data[k].avgCost))]],
             "value")

-----------------------------------------------------------------------------
(* Trade journal page *)

\* Inputs of the trade form: the two types of its select, share counts,
\* prices and fees in cents.
TradeTypes == {"BUY", "SELL"}
TradeShares == {2, 10}
TradePrices == {500}
TradeFees == {0, 695}

\* The dates of the model, as the form's date input and the seed write them
\* (YYYY-MM-DD), in ascending order.
IsoDates == << "2025-12-15", "2025-12-20", "2025-12-31", "2026-01-01",
               "2026-01-08", "2026-01-15", "2026-01-28" >>
TradeDates == {"2025-12-31", "2026-01-01"}

\* Tickers of a journal that grows past the ten bars of the volume chart.
JournalTickers == << "AC.TO", "BNS.TO", "CM.TO", "DOL.TO", "EMA.TO", "FTS.TO",
                     "GIB.TO", "H.TO", "IMO.TO", "K.TO", "L.TO", "MFC.TO",
                     "NA.TO", "OTEX.TO" >>

\* The journal of the volume chart takes trades up to identity MaxJournal.
MaxJournal == 11

getTrades(db) == NewestFirst(db)

addTrade(db, nextId, trade) == InsertAll(db, nextId, <<trade>>)

\* db.delete(trades).where(eq(trades.id, id))
deleteTrade_UpTo(db, id) == SelectSeq(db, LAMBDA row : row.id > id)
deleteTrade(db, id) == SelectSeq(db, LAMBDA row : row.id # id)

deletePortfolioItem(db, id) == SelectSeq(db, LAMBDA row : row.id # id)

\* a.localeCompare(b) of two dates written as YYYY-MM-DD: negative, zero or
\* positive as a is before, the same as or after b.
DateRank(d) == CHOOSE k \in 1..Len(IsoDates) : IsoDates[k] = d
localeCompare(a, b) ==
    IF DateRank(a) < DateRank(b) THEN -1
    ELSE IF DateRank(a) > DateRank(b) THEN 1
    ELSE 0

\* Array.prototype.sort((a, b) => a.date.localeCompare(b.date)): stable,
\* ascending.
RECURSIVE SortByDate(_)
SortByDate(list) ==
    IF Len(list) <= 1 THEN list
    ELSE LET last == list[Len(list)]
             front == SortByDate(SubSeq(list, 1, Len(list) - 1))
             keep == {k \in 1..Len(front) :
                         localeCompare(front[k].date, last.date) <= 0}
             n == Cardinality(keep)
         IN  SubSeq(front, 1, n) \o <<last>> \o SubSeq(front, n + 1, Len(front))

\* trades ? [...trades].sort(...) : []
sortedTrades_Unsorted(list) == list
sortedTrades(list) == SortByDate(list)

\* [...trades] is a copy: the sort leaves the query's own array as it was.
tradesAfterSort_InPlace(list, sorted) == sorted
tradesAfterSort(list, sorted) == list

\* The headline totals: trades?.filter(t => t.type === type).reduce(...) || 0
\* and trades?.reduce((s, t) => s + t.fees, 0) || 0.
RECURSIVE TypeTotal(_, _, _)
TypeTotal(list, type, k) ==
    IF k > Len(list) THEN 0
    ELSE (IF list[k].type = type THEN list[k].shares * list[k].price ELSE 0)
         + TypeTotal(list, type, k + 1)
RECURSIVE FeeTotal(_, _)
FeeTotal(list, k) ==
    IF k > Len(list) THEN 0 ELSE list[k].fees + FeeTotal(list, k + 1)
TradeTotals(q) ==
    LET list == IF q.status = "success" THEN q.data ELSE <<>>
    IN  [totalBought |-> TypeTotal(list, "BUY", 1),
         totalSold |-> TypeTotal(list, "SELL", 1),
         totalFees |-> FeeTotal(list, 1)]

\* t.shares * t.price
amountOf_Shares(t) == t.shares
amountOf(t) == t.shares * t.price

\* sortedTrades.reduce(...) of tradesByDate, from trade k on
RECURSIVE TradesByDateFrom(_, _, _)
TradesByDateFrom(sorted, k, acc) ==
    IF k > Len(sorted) THEN acc
    ELSE
    LET t == sorted[k]
        found == {i \in 1..Len(acc) : acc[i].date = t.date}
    IN  IF found # {}
        THEN LET i == CHOOSE j \in found : \A m \in found : j <= m
                 existing == acc[i]
             IN  TradesByDateFrom(sorted, k + 1,
                     [acc EXCEPT ![i] =
                         [date |-> existing.date,
                          buys |-> IF t.type = "BUY"
                                   THEN existing.buys + amountOf(t)
                                   ELSE existing.buys,
                          sells |-> IF t.type = "BUY"
                                    THEN existing.sells
                                    ELSE existing.sells + amountOf(t),
                          fees |-> existing.fees + t.fees]])
        ELSE TradesByDateFrom(sorted, k + 1,
                 Append(acc,
                     [date |-> t.date,
                      buys |-> IF t.type = "BUY" THEN amountOf(t) ELSE 0,
                      sells |-> IF t.type = "SELL" THEN amountOf(t) ELSE 0,
                      fees |-> t.fees]))

\* let cumFees = 0, at the start of every render
cumFeesStart_Kept(previous) == previous
cumFeesStart(previous) == 0

\* cumFees += d.fees
addFees_Replace(cum, fees) == fees
addFees(cum, fees) == cum + fees

\* tradesByDate.map(...) of feesOverTime, from bucket k on with cumFees = cum
RECURSIVE FeesOverTimeFrom(_, _, _)
FeesOverTimeFrom(byDate, k, cum) ==
    IF k > Len(byDate) THEN <<>>
    ELSE LET next == addFees(cum, byDate[k].fees)
         IN  <<[date |-> byDate[k].date,
                fees |-> toFixedCents(RatInt(next))]>>
             \o FeesOverTimeFrom(byDate, k + 1, next)

\* cumFees after the map over the buckets from k on
RECURSIVE CumFeesFrom(_, _, _)
CumFeesFrom(byDate, k, cum) ==
    IF k > Len(byDate) THEN cum
    ELSE CumFeesFrom(byDate, k + 1, addFees(cum, byDate[k].fees))

\* trades.reduce(...) of tickerVolume, from trade k on
RECURSIVE TickerVolumeFrom(_, _, _)
TickerVolumeFrom(list, k, acc) ==
    IF k > Len(list) THEN acc
    ELSE TickerVolumeFrom(list, k + 1,
             Accumulate(acc, list[k].ticker, amountOf(list[k])))

\* The number of bars of the volume chart: slice(0, 10).
TickerLimit == 10

\* .sort((a, b) => b.volume - a.volume)
byVolumeDesc_Unsorted(list) == list
byVolumeDesc(list) == SortDescBy(list, "volume")

\* Array.prototype.slice(0, n)
SliceTo(list, n) == SubSeq(list, 1, IF Len(list) < n THEN Len(list) ELSE n)

TickerData(list) ==
    LET tickerVolume == TickerVolumeFrom(list, 1, <<>>)
        entries == [k \in 1..Len(tickerVolume) |->
                       [ticker |-> tickerVolume[k].key,
                        volume |-> toFixedCents(RatInt(tickerVolume[k].value))]]
    IN  SliceTo(byVolumeDesc(entries), TickerLimit)

-----------------------------------------------------------------------------
(* Alerts and chat: storage and the text handling of POST /api/chat *)

\* A text is a sequence of parts: words, white space, the two markers of an
\* alerts block, and JSON texts (a JSON text of a value, or one that does
\* not parse).
Words(w) == [kind |-> "words", text |-> w]
Space == [kind |-> "space"]
AlertsOpen == [kind |-> "---ALERTS---"]
AlertsClose == [kind |-> "---END_ALERTS---"]
Json(value) == [kind |-> "json", value |-> value]

\* JSON values: an array of elements, or an object.
JsonArray(elements) == [type |-> "array", elements |-> elements]
JsonObject == [type |-> "object"]

\* Values of a request body's message: strings and numbers.
Str(parts) == [type |-> "string", parts |-> parts]
Num(n) == [type |-> "number", value |-> n]

\* String.prototype.trim
RECURSIVE TrimStart(_)
TrimStart(text) ==
    IF text # <<>> /\ Head(text).kind = "space" THEN TrimStart(Tail(text))
    ELSE text
RECURSIVE TrimEnd(_)
TrimEnd(text) ==
    IF text # <<>> /\ text[Len(text)].kind = "space"
    THEN TrimEnd(SubSeq(text, 1, Len(text) - 1))
    ELSE text
trim(text) == TrimEnd(TrimStart(text))

\* !message || typeof message !== "string" || !message.trim()
messageRequired(body) ==
    \/ "message" \notin DOMAIN body
    \/ body.message.type # "string"
    \/ body.message.parts = <<>>
    \/ trim(body.message.parts) = <<>>

\* db.insert(chatMessages).values(message).returning()
addChatMessage(db, nextId, message) == InsertAll(db, nextId, <<message>>)

\* orderBy(chatMessages.createdAt): oldest first.
getChatMessages(db) == db

\* assistantContent.match(/---ALERTS---\n?([\s\S]*?)\n?---END_ALERTS---/):
\* the leftmost opening marker that has a closing marker after it, up to the
\* first closing marker after it.  Yields Null when there is no match.
alertMatch(text) ==
    LET opens == {i \in 1..Len(text) :
                     /\ text[i].kind = "---ALERTS---"
                     /\ \E j \in (i + 1)..Len(text) :
                           text[j].kind = "---END_ALERTS---"}
    IN  IF opens = {} THEN Null
        ELSE LET i == CHOOSE x \in opens : \A y \in opens : x <= y
                 closes == {j \in (i + 1)..Len(text) :
                               text[j].kind = "---END_ALERTS---"}
                 j == CHOOSE x \in closes : \A y \in closes : x <= y
             IN  [from |-> i, to |-> j, group |-> SubSeq(text, i + 1, j - 1)]

\* JSON.parse: white space around the one JSON text is skipped; anything
\* else throws.
JSONparse(text) ==
    LET inner == trim(text) IN
    IF Len(inner) = 1 /\ inner[1].kind = "json" /\ "value" \in DOMAIN inner[1]
    THEN [ok |-> TRUE, value |-> inner[1].value]
    ELSE [ok |-> FALSE]

\* assistantContent.replace(/---ALERTS---[\s\S]*?---END_ALERTS---/, "").trim()
withoutBlock_Kept(text, m) == trim(text)
withoutBlock(text, m) ==
    trim(SubSeq(text, 1, m.from - 1) \o SubSeq(text, m.to + 1, Len(text)))

\* The values the route passes to addAlert: the four fields of the element.
alertOf(a) ==
    [f \in (DOMAIN a) \cap {"ticker", "signalType", "urgency", "message"} |->
        a[f]]

\* The columns of alerts that are notNull and have no default.
alertAccepted(alert) == {"ticker", "signalType", "message"} \subseteq DOMAIN alert

\* db.insert(alerts).values(alert).returning(): urgency defaults to
\* "medium" and isRead to false.
isReadDefault_Read == TRUE
isReadDefault == FALSE
alertRow(alert) ==
    alert @@ [urgency |-> "medium", isRead |-> isReadDefault]
addAlert(db, nextId, alert) == InsertAll(db, nextId, <<alertRow(alert)>>)

\* markAlertRead, markAllAlertsRead, clearAlerts
markAlertRead_Toggle(db, id) ==
    [k \in 1..Len(db) |->
        IF db[k].id = id THEN [db[k] EXCEPT !.isRead = ~@] ELSE db[k]]
markAlertRead(db, id) ==
    [k \in 1..Len(db) |->
        IF db[k].id = id THEN [db[k] EXCEPT !.isRead = TRUE] ELSE db[k]]
markAllAlertsRead(db) == [k \in 1..Len(db) |-> [db[k] EXCEPT !.isRead = TRUE]]
clearAlerts(db) == <<>>
getAlerts(db) == NewestFirst(db)

StandbyMsg == <<Words("AI features are in standby mode.")>>
AIError == <<Words("AI Error: Failed to get response.")>>

\* The requests to POST /api/chat that may be in flight together.
ChatRequests == {1, 2}

\* Bodies of a chat request: no message, a number, the empty string, a
\* blank string, and a message with white space around it.
ChatBodies ==
    {[includePortfolioAnalysis |-> FALSE],
     [message |-> Num(5)],
     [message |-> Str(<<>>)],
     [message |-> Str(<<Space>>)],
     [message |-> Str(<<Space, Words("Analyse RY.TO"), Space>>)],
     [message |-> Str(<<Words("Review my holdings")>>),
      includePortfolioAnalysis |-> TRUE]}

\* Elements of an alerts array: complete, without urgency (and with an
\* isRead of its own), and without a ticker.
AlertRY == [ticker |-> "RY.TO", signalType |-> "BUY", urgency |-> "high",
            message |-> "Breakout"]
AlertENB == [ticker |-> "ENB.TO", signalType |-> "HOLD", message |-> "Yield",
             isRead |-> TRUE]
AlertNoTicker == [signalType |-> "SELL", urgency |-> "low", message |-> "Exit"]

\* Contents of a completion.
ChatReplies ==
    {<<>>,
     <<Words("Hold."), Space, AlertsOpen, Json(JsonArray(<<AlertRY>>))>>,
     <<Words("Buy."), Space, AlertsOpen, Space,
       Json(JsonArray(<<AlertRY, AlertENB>>)), Space, AlertsClose>>,
     <<Words("Buy."), Space, AlertsOpen, [kind |-> "json"], AlertsClose>>,
     <<AlertsOpen, Json(JsonObject), AlertsClose, Space, Words("Done.")>>,
     <<AlertsOpen, Json(JsonArray(<<AlertRY, AlertNoTicker, AlertENB>>)),
       AlertsClose, Words("and"), AlertsOpen, Json(JsonArray(<<AlertENB>>)),
       AlertsClose>>}

-----------------------------------------------------------------------------
(* The stock-detail page and its chart *)

\* The timespan of each of TIMEFRAMES (1D, 1W, 1M, 3M, 1Y).
TIMEFRAMES == <<"minute", "minute", "day", "day", "day">>

\* useState(2): the index of 1M, counted from 1 here.
DefaultTimeframe == 3

\* Effect runs made in one behaviour, and the distinct results the chart
\* query gives (0 is undefined: no data yet, or an error).
MaxRuns == 3
MaxData == 2

\* The page before its first mount and after an unmount; instance counts the
\* mounts, each with refs of its own.
Unmounted(instance) ==
    [mounted |-> FALSE, instance |-> instance,
     activeTimeframe |-> DefaultTimeframe, chartData |-> 0,
     loading |-> TRUE, container |-> FALSE]

\* What a render reads: the timeframe, and data and isLoading of the chart
\* query.  isLoading means there is no data.
Renders ==
    {r \in [activeTimeframe : 1..Len(TIMEFRAMES), chartData : 0..MaxData,
            loading : BOOLEAN] : r.loading => r.chartData = 0}

\* The effect's dependencies [chartData, tf.timespan] differ from the last
\* render's.
depsChanged(before, after) ==
    \/ after.chartData # before.chartData
    \/ TIMEFRAMES[after.activeTimeframe] # TIMEFRAMES[before.activeTimeframe]

\* One run of the effect up to its await: without a container it returns at
\* once, and returns no cleanup.
effectRun(instance, container) ==
    [instance |-> instance, cancelled |-> FALSE,
     pc |-> IF container THEN "import" ELSE "returned early"]

\* useRef(null): chartRef.current is null, or a chart by its place in charts.
NoChart == 0

\* chartRef.current.remove(), if there is a chart.
remove(all, ref) ==
    IF ref = NoChart THEN all ELSE [all EXCEPT ![ref].removed = TRUE]

\* The cleanup the last run returned, if it returned one: the runs, the
\* charts and chartRef.current after it.
cleanup(runs, all, ref) ==
    LET last == Len(runs) IN
    IF runs = <<>> \/ runs[last].pc = "returned early"
    THEN [effects |-> runs, charts |-> all, chartRef |-> ref]
    ELSE [effects |-> [runs EXCEPT ![last].cancelled = TRUE],
          charts |-> remove(all, ref), chartRef |-> NoChart]

\* if (cancelled || !chartContainerRef.current) return;
returnsAfterImport_NoContainer(run, container) == ~container
returnsAfterImport(run, container) == run.cancelled \/ ~container

-----------------------------------------------------------------------------
(* Initial state: empty tables, no query has data yet *)

Init ==
    /\ nodeEnv \in NodeEnvs
    /\ dbWatchlist = <<>>
    /\ dbPortfolio = <<>>
    /\ dbTrades = <<>>
    /\ dbAlerts = <<>>
    /\ dbSettings = <<>>
    /\ identity = [watchlist |-> 1, portfolio |-> 1, trades |-> 1,
                   alerts |-> 1, settings |-> 1, chat |-> 1]
    /\ patchBody = Null
    /\ settings = Undefined
    /\ calcTicker = Null
    /\ dialog = SizingDialog(Null, Undefined)
    /\ portfolio = Pending
    /\ snapshot = [t \in QuotedTickers |-> Pending]
    /\ cards = <<>>
    /\ totals = Totals(Pending)
    /\ holdingsPnlData = <<>>
    /\ sectorChartData = <<>>
    /\ holdingsValueData = <<>>
    /\ showAdd = [portfolio |-> FALSE, trades |-> FALSE]
    /\ trades = Pending
    /\ tradeTotals = TradeTotals(Pending)
    /\ tradeRows = <<>>
    /\ tradesByDate = <<>>
    /\ cumFees = 0
    /\ feesOverTime = <<>>
    /\ tickerData = <<>>
    /\ route \in Routes
    /\ lastResponse = Null
    /\ dbChat = <<>>
    /\ chat = [r \in ChatRequests |-> [pc |-> "idle"]]
    /\ calls = [c \in SettingsCalls |-> [pc |-> "idle"]]
    /\ detail = Unmounted(0)
    /\ effects = <<>>
    /\ chartRef = NoChart
    /\ charts = <<>>

-----------------------------------------------------------------------------
(* Server routes and the watchlist page *)

\* GET /api/settings answered to the watchlist page's settings query; the
\* page renders again with the new data.
GetApiSettings ==
    /\ route = "/"
    /\ UNCHANGED route
    /\ UNCHANGED <<lastResponse, requestVars, chartVars>>
    /\ LET got == getSettings(dbSettings, identity.settings) IN
       /\ dbSettings' = got.db
       /\ identity' = [identity EXCEPT !.settings = got.nextId]
       /\ settings' = got.result
       /\ dialog' = SizingDialog(calcTicker, got.result)
       /\ UNCHANGED <<nodeEnv, dbWatchlist, dbPortfolio, dbTrades, dbAlerts,
                      patchBody, calcTicker>>
       /\ UNCHANGED <<portfolioPageVars, tradesPageVars, showAdd>>

\* PATCH /api/settings with a body that passes validation.
PatchApiSettings ==
    /\ UNCHANGED route
    /\ UNCHANGED <<lastResponse, requestVars, chartVars>>
    /\ \E a \in AccountSizes, r \in RiskPercentages, fee \in SuppliedFees :
           LET body == [accountSize |-> a, riskPercentage |-> r, email |-> "",
                        analysisInterval |-> 60, flatFeePerTrade |-> fee]
               done == updateSettings(dbSettings, identity.settings,
                                      parseSettingsPatch(body))
           IN  /\ patchBody' = body
               /\ dbSettings' = done.db
               /\ identity' = [identity EXCEPT !.settings = done.nextId]
               /\ UNCHANGED <<nodeEnv, dbWatchlist, dbPortfolio, dbTrades,
                              dbAlerts>>
               /\ UNCHANGED watchlistPageVars
               /\ UNCHANGED <<portfolioPageVars, tradesPageVars, showAdd>>

\* POST /api/watchlist with a body that passes validation.
PostApiWatchlist ==
    /\ UNCHANGED route
    /\ UNCHANGED <<lastResponse, requestVars, chartVars>>
    /\ \E e \in EntryTargets, sl \in StopLosses, tp \in TakeProfits :
           /\ identity.watchlist <= MaxId
           /\ dbWatchlist' = addWatchlistItem(dbWatchlist, identity.watchlist,
                  [ticker |-> "TD.TO", entryTarget |-> e, stopLoss |-> sl,
                   takeProfit |-> tp, signal |-> "WATCH", sector |-> "Other"])
           /\ identity' = [identity EXCEPT !.watchlist = @ + 1]
           /\ UNCHANGED <<nodeEnv, dbPortfolio, dbTrades, dbAlerts, dbSettings,
                          patchBody>>
           /\ UNCHANGED watchlistPageVars
           /\ UNCHANGED <<portfolioPageVars, tradesPageVars, showAdd>>

\* POST /api/seed: refused in production, nothing to do once the watchlist
\* has an item, else the seed data is inserted into the four tables.
PostApiSeed ==
    /\ UNCHANGED route
    /\ UNCHANGED <<requestVars, chartVars>>
    /\ /\ IF seedDisabled(nodeEnv)
          THEN /\ lastResponse' = AnswerTo(Request("POST", "/api/seed"), 403,
                      [message |-> "Seed endpoint disabled in production"])
               /\ UNCHANGED <<dbWatchlist, dbPortfolio, dbTrades, dbAlerts,
                              identity>>
          ELSE IF alreadySeeded(getWatchlist(dbWatchlist))
          THEN /\ lastResponse' = AnswerTo(Request("POST", "/api/seed"), 200,
                      [message |-> "Data already seeded"])
               /\ UNCHANGED <<dbWatchlist, dbPortfolio, dbTrades, dbAlerts,
                              identity>>
          ELSE /\ dbWatchlist' =
                      InsertAll(dbWatchlist, identity.watchlist, SeedWatchlist)
               /\ dbPortfolio' =
                      InsertAll(dbPortfolio, identity.portfolio, SeedPortfolio)
               /\ dbTrades' = InsertAll(dbTrades, identity.trades, SeedTrades)
               /\ dbAlerts' = InsertAll(dbAlerts, identity.alerts, SeedAlerts)
               /\ identity' = [identity EXCEPT
                      !.watchlist = @ + Len(SeedWatchlist),
                      !.portfolio = @ + Len(SeedPortfolio),
                      !.trades = @ + Len(SeedTrades),
                      !.alerts = @ + Len(SeedAlerts)]
               /\ lastResponse' = AnswerTo(Request("POST", "/api/seed"), 200,
                      [message |-> "Seed data created"])
       /\ UNCHANGED <<nodeEnv, dbSettings, patchBody>>
       /\ UNCHANGED watchlistPageVars
       /\ UNCHANGED <<portfolioPageVars, tradesPageVars, showAdd>>

\* The calculator button of a watchlist card opens the sizing dialog.
setCalcTicker ==
    /\ route = "/"
    /\ UNCHANGED route
    /\ UNCHANGED <<lastResponse, requestVars, chartVars>>
    /\ \E k \in 1..Len(dbWatchlist) :
           LET item == getWatchlist(dbWatchlist)[k] IN
           /\ calcTicker' = item
           /\ dialog' = SizingDialog(item, settings)
           /\ UNCHANGED settings
           /\ UNCHANGED serverVars
           /\ UNCHANGED <<portfolioPageVars, tradesPageVars, showAdd>>

\* onOpenChange of the sizing dialog.
closeDialog ==
    /\ route = "/"
    /\ UNCHANGED route
    /\ UNCHANGED <<lastResponse, requestVars, chartVars>>
    /\ /\ calcTicker # Null
       /\ calcTicker' = Null
       /\ dialog' = SizingDialog(Null, settings)
       /\ UNCHANGED settings
       /\ UNCHANGED serverVars
       /\ UNCHANGED <<portfolioPageVars, tradesPageVars, showAdd>>

Next ==
    \/ GetApiSettings
    \/ PatchApiSettings
    \/ PostApiWatchlist
    \/ PostApiSeed
    \/ setCalcTicker
    \/ closeDialog

Spec == Init /\ [][Next]_vars

-----------------------------------------------------------------------------
(* The portfolio page *)

RenderPortfolio(q, snaps) ==
    /\ cards' = RenderCards(q, snaps)
    /\ totals' = Totals(q)
    /\ holdingsPnlData' = HoldingsPnlData(q)
    /\ sectorChartData' = SectorChartData(q)
    /\ holdingsValueData' = HoldingsValueData(q)

\* The page's /api/portfolio query gets its data.
PortfolioQuery ==
    /\ route = "/portfolio"
    /\ UNCHANGED route
    /\ UNCHANGED <<lastResponse, requestVars, chartVars>>
    /\ /\ portfolio' = Loaded(getPortfolio(dbPortfolio))
       /\ RenderPortfolio(portfolio', snapshot)
       /\ UNCHANGED snapshot
       /\ UNCHANGED serverVars
       /\ UNCHANGED <<watchlistPageVars, tradesPageVars, showAdd>>

\* addMutation: the form of the open dialog is submitted, POST
\* /api/portfolio with the form's values, then the portfolio query is
\* invalidated and fetched again and the dialog is closed.
addMutation ==
    /\ route = "/portfolio"
    /\ UNCHANGED route
    /\ UNCHANGED <<lastResponse, requestVars, chartVars>>
    /\ \E t \in PortfolioTickers, n \in ShareCounts, c \in AvgCosts,
          p \in StoredPrices :
           /\ showAdd.portfolio
           /\ showAdd' = [showAdd EXCEPT !.portfolio = FALSE]
           /\ identity.portfolio <= MaxId
           /\ dbPortfolio' = addPortfolioItem(dbPortfolio, identity.portfolio,
                  [ticker |-> t, shares |-> n, avgCost |-> c,
                   currentPrice |-> p, sector |-> "Other"])
           /\ identity' = [identity EXCEPT !.portfolio = @ + 1]
           /\ portfolio' = Loaded(getPortfolio(dbPortfolio'))
           /\ RenderPortfolio(portfolio', snapshot)
           /\ UNCHANGED snapshot
           /\ UNCHANGED <<nodeEnv, dbWatchlist, dbTrades, dbAlerts, dbSettings,
                          patchBody>>
           /\ UNCHANGED <<watchlistPageVars, tradesPageVars>>

\* setShowAdd: the Add Position dialog is opened or closed, and the page
\* renders again.
setShowAddPortfolio ==
    /\ route = "/portfolio"
    /\ UNCHANGED route
    /\ UNCHANGED <<lastResponse, requestVars, chartVars>>
    /\ \E open \in BOOLEAN :
           /\ open # showAdd.portfolio
           /\ showAdd' = [showAdd EXCEPT !.portfolio = open]
           /\ RenderPortfolio(portfolio, snapshot)
           /\ UNCHANGED <<portfolio, snapshot>>
           /\ UNCHANGED serverVars
           /\ UNCHANGED <<watchlistPageVars, tradesPageVars>>

\* The snapshot query of a mounted card gets an answer (and again every
\* refetch interval).
SnapshotQuery ==
    /\ route = "/portfolio"
    /\ UNCHANGED route
    /\ UNCHANGED <<lastResponse, requestVars, chartVars>>
    /\ \E k \in 1..Len(cards), data \in SnapshotResponses :
           LET t == portfolio.data[k].ticker IN
           /\ snapshot' = [snapshot EXCEPT ![t] = Loaded(data)]
           /\ RenderPortfolio(portfolio, snapshot')
           /\ UNCHANGED portfolio
           /\ UNCHANGED serverVars
           /\ UNCHANGED <<watchlistPageVars, tradesPageVars, showAdd>>

NextPortfolio ==
    \/ PortfolioQuery
    \/ setShowAddPortfolio
    \/ addMutation
    \/ SnapshotQuery

SpecPortfolio == Init /\ [][NextPortfolio]_vars

\* Sectors sent with a new position: the empty string, the form's default
\* and one of the form's other sectors.
SectorInputs == {"", "Other", "Financials"}

\* addMutation with a position of each sector, and with sector: null, which
\* the insert schema accepts and the table stores as NULL.
addSectorMutation ==
    /\ route = "/portfolio"
    /\ UNCHANGED route
    /\ UNCHANGED <<lastResponse, requestVars, chartVars>>
    /\ \E none \in BOOLEAN, sec \in SectorInputs, n \in {1, 2} :
           LET position == [ticker |-> "RY.TO", shares |-> n, avgCost |-> 300,
                            currentPrice |-> 400]
               item == IF none THEN position ELSE position @@ [sector |-> sec]
           IN  /\ showAdd.portfolio
               /\ showAdd' = [showAdd EXCEPT !.portfolio = FALSE]
               /\ identity.portfolio <= MaxId
               /\ dbPortfolio' =
                      addPortfolioItem(dbPortfolio, identity.portfolio, item)
               /\ identity' = [identity EXCEPT !.portfolio = @ + 1]
               /\ portfolio' = Loaded(getPortfolio(dbPortfolio'))
               /\ RenderPortfolio(portfolio', snapshot)
               /\ UNCHANGED snapshot
               /\ UNCHANGED <<nodeEnv, dbWatchlist, dbTrades, dbAlerts,
                              dbSettings, patchBody>>
               /\ UNCHANGED <<watchlistPageVars, tradesPageVars>>

NextSectors ==
    \/ PortfolioQuery
    \/ setShowAddPortfolio
    \/ addSectorMutation

SpecSectors == Init /\ [][NextSectors]_vars

-----------------------------------------------------------------------------
(* The trade journal page *)

\* One render of the page over the query data q: the aggregations, then the
\* trade history in the order of the query's array.
RenderTrades(q) ==
    LET list == IF q.status = "success" THEN q.data ELSE <<>>
        sorted == sortedTrades(list)
        after == tradesAfterSort(list, sorted)
        byDate == TradesByDateFrom(sorted, 1, <<>>)
        start == cumFeesStart(cumFees)
    IN  /\ trades' = IF q.status = "success" THEN Loaded(after) ELSE q
        /\ tradeTotals' = TradeTotals(q)
        /\ tradesByDate' = byDate
        /\ feesOverTime' = FeesOverTimeFrom(byDate, 1, start)
        /\ cumFees' = CumFeesFrom(byDate, 1, start)
        /\ tickerData' = TickerData(after)
        /\ tradeRows' = [k \in 1..Len(after) |-> after[k].id]

\* The page's /api/trades query gets its data.
TradesQuery ==
    /\ route = "/trades"
    /\ UNCHANGED route
    /\ UNCHANGED <<lastResponse, requestVars, chartVars>>
    /\ /\ RenderTrades(Loaded(getTrades(dbTrades)))
       /\ UNCHANGED serverVars
       /\ UNCHANGED <<watchlistPageVars, portfolioPageVars, showAdd>>

\* setShowAdd: the Log Trade dialog is opened or closed, and the page
\* renders again.
setShowAddTrades ==
    /\ route = "/trades"
    /\ UNCHANGED route
    /\ UNCHANGED <<lastResponse, requestVars, chartVars>>
    /\ \E open \in BOOLEAN :
           /\ open # showAdd.trades
           /\ showAdd' = [showAdd EXCEPT !.trades = open]
           /\ RenderTrades(trades)
           /\ UNCHANGED serverVars
           /\ UNCHANGED <<watchlistPageVars, portfolioPageVars>>

\* addMutation of the trades page with the trade of the submitted form: POST
\* /api/trades, then the trades query is invalidated and fetched again and
\* the dialog is closed.
LogTrade(trade) ==
    /\ route = "/trades"
    /\ UNCHANGED route
    /\ UNCHANGED <<lastResponse, requestVars, chartVars>>
    /\ /\ showAdd.trades
       /\ showAdd' = [showAdd EXCEPT !.trades = FALSE]
       /\ dbTrades' = addTrade(dbTrades, identity.trades, trade)
       /\ identity' = [identity EXCEPT !.trades = @ + 1]
       /\ RenderTrades(Loaded(getTrades(dbTrades')))
       /\ UNCHANGED <<nodeEnv, dbWatchlist, dbPortfolio, dbAlerts, dbSettings,
                      patchBody>>
       /\ UNCHANGED <<watchlistPageVars, portfolioPageVars>>

addTradeMutation ==
    \E ty \in TradeTypes, n \in TradeShares, p \in TradePrices,
       f \in TradeFees, d \in TradeDates :
        /\ identity.trades <= MaxId
        /\ LogTrade([type |-> ty, ticker |-> "RY.TO", shares |-> n,
                     price |-> p, fees |-> f, date |-> d])

NextTrades ==
    \/ TradesQuery
    \/ setShowAddTrades
    \/ addTradeMutation
    \/ PostApiSeed

SpecTrades == Init /\ [][NextTrades]_vars

\* A journal of many tickers: each trade logged is a purchase of one share
\* of the next ticker or a sale of two shares of the ticker before it.
addTickerTradeMutation ==
    \E again \in BOOLEAN :
        LET n == identity.trades IN
        /\ n <= MaxJournal
        /\ LogTrade([type |-> IF again THEN "SELL" ELSE "BUY",
                     ticker |-> IF again /\ n > 1 THEN JournalTickers[n - 1]
                                ELSE JournalTickers[n],
                     shares |-> IF again THEN 2 ELSE 1,
                     price |-> 300, fees |-> 695, date |-> "2026-01-01"])

NextVolume ==
    \/ TradesQuery
    \/ setShowAddTrades
    \/ addTickerTradeMutation

SpecVolume == Init /\ [][NextVolume]_vars

-----------------------------------------------------------------------------
(* Both pages over the seeded data *)

\* deleteMutation of the trades page, from the button of a trade's row:
\* DELETE /api/trades/:id, then the trades query is fetched again.
deleteTradeMutation ==
    /\ route = "/trades"
    /\ UNCHANGED route
    /\ UNCHANGED <<lastResponse, requestVars, chartVars>>
    /\ \E k \in 1..Len(tradeRows) :
           /\ dbTrades' = deleteTrade(dbTrades, tradeRows[k])
           /\ RenderTrades(Loaded(getTrades(dbTrades')))
           /\ UNCHANGED <<nodeEnv, dbWatchlist, dbPortfolio, dbAlerts,
                          dbSettings, identity, patchBody>>
           /\ UNCHANGED <<watchlistPageVars, portfolioPageVars, showAdd>>

\* deleteMutation of the portfolio page, from the button of a card: DELETE
\* /api/portfolio/:id, then the portfolio query is fetched again.
deletePortfolioMutation ==
    /\ route = "/portfolio"
    /\ UNCHANGED route
    /\ UNCHANGED <<lastResponse, requestVars, chartVars>>
    /\ \E k \in 1..Len(cards) :
           /\ dbPortfolio' = deletePortfolioItem(dbPortfolio, cards[k].id)
           /\ portfolio' = Loaded(getPortfolio(dbPortfolio'))
           /\ RenderPortfolio(portfolio', snapshot)
           /\ UNCHANGED snapshot
           /\ UNCHANGED <<nodeEnv, dbWatchlist, dbTrades, dbAlerts, dbSettings,
                          identity, patchBody>>
           /\ UNCHANGED <<watchlistPageVars, tradesPageVars, showAdd>>

\* The location changes: the page that was mounted is unmounted and loses
\* its state, the page of the new route is mounted and renders with the
\* data its queries hold.
navigate ==
    \E to \in Routes :
        /\ to # route
        /\ route' = to
        /\ showAdd' = [portfolio |-> FALSE, trades |-> FALSE]
        /\ calcTicker' = Null
        /\ dialog' = SizingDialog(Null, settings)
        /\ IF to = "/portfolio"
           THEN RenderPortfolio(portfolio, snapshot)
           ELSE UNCHANGED <<cards, totals, holdingsPnlData, sectorChartData,
                            holdingsValueData>>
        /\ IF to = "/trades"
           THEN RenderTrades(trades)
           ELSE UNCHANGED tradesPageVars
        /\ UNCHANGED <<settings, portfolio, snapshot>>
        /\ UNCHANGED serverVars
        /\ UNCHANGED <<lastResponse, requestVars, chartVars>>

NextPages ==
    \/ navigate
    \/ PostApiSeed
    \/ TradesQuery
    \/ setShowAddTrades
    \/ deleteTradeMutation
    \/ PortfolioQuery
    \/ setShowAddPortfolio
    \/ deletePortfolioMutation

SpecPages == Init /\ [][NextPages]_vars

-----------------------------------------------------------------------------
(* The trades routes of the server *)

\* The type of a trade is any text to the API: the two of the page's form
\* and one more.
ApiTradeTypes == TradeTypes \cup {"DIVIDEND"}

\* Notes sent with a trade.
TradeNotes == {"", "Dip buy"}

\* POST /api/trades with a body that passes validation.
PostApiTrades ==
    \E ty \in ApiTradeTypes, f \in TradeFees, notes \in TradeNotes :
        /\ identity.trades <= MaxId
        /\ dbTrades' = addTrade(dbTrades, identity.trades,
               [type |-> ty, ticker |-> "RY.TO", shares |-> 10,
                price |-> 500, fees |-> f, date |-> "2026-01-01",
                notes |-> notes])
        /\ identity' = [identity EXCEPT !.trades = @ + 1]
        /\ UNCHANGED <<nodeEnv, dbWatchlist, dbPortfolio, dbAlerts,
                       dbSettings, patchBody>>
        /\ UNCHANGED <<watchlistPageVars, portfolioPageVars, tradesPageVars,
                       showAdd, route>>
        /\ UNCHANGED <<lastResponse, requestVars, chartVars>>

\* DELETE /api/trades/:id, for the id of a trade or of no trade.
DeleteApiTrades ==
    \E id \in 0..identity.trades :
        /\ dbTrades' = deleteTrade(dbTrades, id)
        /\ UNCHANGED <<nodeEnv, dbWatchlist, dbPortfolio, dbAlerts,
                       dbSettings, identity, patchBody>>
        /\ UNCHANGED <<watchlistPageVars, portfolioPageVars, tradesPageVars,
                       showAdd, route>>
        /\ UNCHANGED <<lastResponse, requestVars, chartVars>>

NextTradeStore ==
    \/ PostApiTrades
    \/ DeleteApiTrades
    \/ PostApiSeed

SpecTradeStore == Init /\ [][NextTradeStore]_vars

-----------------------------------------------------------------------------
(* POST /api/chat: a request runs from one await to the next, and the
   requests in flight take their steps in any order *)

\* The request arrives: an unusable message is answered 400; else the
\* trimmed message is saved as the user's.
PostApiChat ==
    \E r \in ChatRequests, body \in ChatBodies :
        /\ chat[r].pc = "idle"
        /\ IF messageRequired(body)
           THEN /\ chat' = [chat EXCEPT ![r] =
                       [pc |-> "done", body |-> body,
                        answer |-> Answer(400,
                            [message |-> "Message is required"])]]
                /\ UNCHANGED <<dbChat, identity>>
           ELSE LET message == [role |-> "user",
                                content |-> trim(body.message.parts)]
                    table == addChatMessage(dbChat, identity.chat, message)
                IN  /\ dbChat' = table
                    /\ identity' = [identity EXCEPT !.chat = @ + 1]
                    /\ chat' = [chat EXCEPT ![r] =
                           [pc |-> "user", body |-> body,
                            user |-> table[Len(table)]]]
        /\ UNCHANGED <<nodeEnv, dbWatchlist, dbPortfolio, dbTrades, dbAlerts,
                       dbSettings, patchBody>>
        /\ UNCHANGED <<watchlistPageVars, portfolioPageVars, tradesPageVars,
                       showAdd, route, lastResponse, calls, chartVars>>

\* Without OPENAI_API_KEY the standby text is saved as the assistant's;
\* with it, the data for the prompt is read (getSettings creates the
\* settings row when there is none) and the completion is requested.
ChatPrompt ==
    \E r \in ChatRequests, key \in BOOLEAN :
        /\ chat[r].pc = "user"
        /\ IF ~key
           THEN LET table == addChatMessage(dbChat, identity.chat,
                        [role |-> "assistant", content |-> StandbyMsg])
                IN  /\ dbChat' = table
                    /\ identity' = [identity EXCEPT !.chat = @ + 1]
                    /\ chat' = [chat EXCEPT ![r] =
                           [pc |-> "done", body |-> chat[r].body,
                            user |-> chat[r].user,
                            saved |-> table[Len(table)],
                            answer |-> Answer(200, table[Len(table)])]]
                    /\ UNCHANGED dbSettings
           ELSE /\ IF /\ "includePortfolioAnalysis" \in DOMAIN chat[r].body
                      /\ chat[r].body.includePortfolioAnalysis
                   THEN LET got == getSettings(dbSettings, identity.settings)
                        IN  /\ dbSettings' = got.db
                            /\ identity' =
                                   [identity EXCEPT !.settings = got.nextId]
                   ELSE UNCHANGED <<dbSettings, identity>>
                /\ chat' = [chat EXCEPT ![r] =
                       [pc |-> "completion", body |-> chat[r].body,
                        user |-> chat[r].user]]
                /\ UNCHANGED dbChat
        /\ UNCHANGED <<nodeEnv, dbWatchlist, dbPortfolio, dbTrades, dbAlerts,
                       patchBody>>
        /\ UNCHANGED <<watchlistPageVars, portfolioPageVars, tradesPageVars,
                       showAdd, route, lastResponse, calls, chartVars>>

\* What is left of the reply once the loop over the block's alerts is over.
afterAlerts(r, content, m, added) ==
    [pc |-> "save", body |-> chat[r].body, user |-> chat[r].user,
     reply |-> content, assistantContent |-> withoutBlock(content, m),
     added |-> added]

\* The completion fails, and the error text is saved as the assistant's; or
\* it succeeds, and the alerts block of the reply, if any, is parsed.
ChatCompletion ==
    \E r \in ChatRequests :
        /\ chat[r].pc = "completion"
        /\ \/ LET table == addChatMessage(dbChat, identity.chat,
                      [role |-> "assistant", content |-> AIError])
              IN  /\ dbChat' = table
                  /\ identity' = [identity EXCEPT !.chat = @ + 1]
                  /\ chat' = [chat EXCEPT ![r] =
                         [pc |-> "done", body |-> chat[r].body,
                          user |-> chat[r].user,
                          saved |-> table[Len(table)],
                          answer |-> Answer(200, table[Len(table)])]]
           \/ \E content \in ChatReplies :
                 LET m == alertMatch(content)
                     parsed == IF m = Null THEN [ok |-> FALSE]
                               ELSE JSONparse(m.group)
                 IN  /\ chat' = [chat EXCEPT ![r] =
                            IF m = Null
                            THEN [pc |-> "save", body |-> chat[r].body,
                                  user |-> chat[r].user, reply |-> content,
                                  assistantContent |-> content,
                                  added |-> <<>>]
                            ELSE IF /\ parsed.ok
                                    /\ parsed.value.type = "array"
                                    /\ parsed.value.elements # <<>>
                            THEN [pc |-> "alerts", body |-> chat[r].body,
                                  user |-> chat[r].user, reply |-> content,
                                  alertMatch |-> m,
                                  alertsData |-> parsed.value.elements,
                                  added |-> <<>>]
                            ELSE afterAlerts(r, content, m, <<>>)]
                     /\ UNCHANGED <<dbChat, identity>>
        /\ UNCHANGED <<nodeEnv, dbWatchlist, dbPortfolio, dbTrades, dbAlerts,
                       dbSettings, patchBody>>
        /\ UNCHANGED <<watchlistPageVars, portfolioPageVars, tradesPageVars,
                       showAdd, route, lastResponse, calls, chartVars>>

\* One turn of the loop over alertsData: the element is added as an alert,
\* or storage refuses it and the loop is left through the catch.
ChatAddAlert ==
    \E r \in ChatRequests :
        /\ chat[r].pc = "alerts"
        /\ LET k == Len(chat[r].added) + 1
               alert == alertOf(chat[r].alertsData[k])
           IN  IF alertAccepted(alert)
               THEN /\ dbAlerts' = addAlert(dbAlerts, identity.alerts, alert)
                    /\ identity' = [identity EXCEPT !.alerts = @ + 1]
                    /\ chat' = [chat EXCEPT ![r] =
                           IF k = Len(chat[r].alertsData)
                           THEN afterAlerts(r, chat[r].reply,
                                    chat[r].alertMatch,
                                    Append(chat[r].added, identity.alerts))
                           ELSE [chat[r] EXCEPT !.added =
                                    Append(@, identity.alerts)]]
               ELSE /\ chat' = [chat EXCEPT ![r] =
                           afterAlerts(r, chat[r].reply, chat[r].alertMatch,
                                       chat[r].added)]
                    /\ UNCHANGED <<dbAlerts, identity>>
        /\ UNCHANGED <<nodeEnv, dbWatchlist, dbPortfolio, dbTrades, dbSettings,
                       patchBody, dbChat>>
        /\ UNCHANGED <<watchlistPageVars, portfolioPageVars, tradesPageVars,
                       showAdd, route, lastResponse, calls, chartVars>>

\* The reply is saved as the assistant's and sent as the answer.
ChatSave ==
    \E r \in ChatRequests :
        /\ chat[r].pc = "save"
        /\ LET table == addChatMessage(dbChat, identity.chat,
                   [role |-> "assistant",
                    content |-> chat[r].assistantContent])
           IN  /\ dbChat' = table
               /\ identity' = [identity EXCEPT !.chat = @ + 1]
               /\ chat' = [chat EXCEPT ![r] =
                      [pc |-> "done", body |-> chat[r].body,
                       user |-> chat[r].user, reply |-> chat[r].reply,
                       added |-> chat[r].added,
                       saved |-> table[Len(table)],
                       answer |-> Answer(200, table[Len(table)])]]
        /\ UNCHANGED <<nodeEnv, dbWatchlist, dbPortfolio, dbTrades, dbAlerts,
                       dbSettings, patchBody>>
        /\ UNCHANGED <<watchlistPageVars, portfolioPageVars, tradesPageVars,
                       showAdd, route, lastResponse, calls, chartVars>>

NextChat ==
    \/ PostApiChat
    \/ ChatPrompt
    \/ ChatCompletion
    \/ ChatAddAlert
    \/ ChatSave

SpecChat == Init /\ [][NextChat]_vars

-----------------------------------------------------------------------------
(* The trade journal page over the trades the API accepts *)

NextJournal ==
    \/ PostApiTrades
    \/ DeleteApiTrades
    \/ TradesQuery

SpecJournal == Init /\ [][NextJournal]_vars

-----------------------------------------------------------------------------
(* The settings routes, one request after the other *)

\* Bodies with some of the columns, and one with none of them.
SettingsBodies ==
    {[accountSize |-> 50],
     [riskPercentage |-> 10],
     [email |-> "me@example.com", analysisInterval |-> 15],
     [flatFeePerTrade |-> 1000]}

\* PATCH /api/settings with a body of some columns.
PatchApiSettingsFields ==
    \E body \in SettingsBodies :
        LET done == updateSettings(dbSettings, identity.settings,
                                   parseSettingsPatch(body))
        IN  /\ patchBody' = body
            /\ dbSettings' = done.db
            /\ identity' = [identity EXCEPT !.settings = done.nextId]
            /\ UNCHANGED <<nodeEnv, dbWatchlist, dbPortfolio, dbTrades,
                           dbAlerts>>
            /\ UNCHANGED <<watchlistPageVars, portfolioPageVars,
                           tradesPageVars, showAdd, route>>
            /\ UNCHANGED <<lastResponse, requestVars, chartVars>>

NextSettings ==
    \/ GetApiSettings
    \/ PatchApiSettings
    \/ PatchApiSettingsFields

SpecSettings == Init /\ [][NextSettings]_vars

-----------------------------------------------------------------------------
(* getSettings and updateSettings, statement by statement: a call runs from
   one await to the next, and the calls in progress take their steps in any
   order *)

\* The calls made: getSettings(), and updateSettings(s) with one field.
SettingsCallsMade ==
    {[op |-> "getSettings"],
     [op |-> "updateSettings", s |-> [accountSize |-> 50]],
     [op |-> "updateSettings", s |-> [riskPercentage |-> 10]]}

\* What a call goes on with once getSettings has its row.
afterGetSettings(call, row) ==
    IF call.op = "getSettings"
    THEN [pc |-> "returned", op |-> call.op, result |-> row]
    ELSE [pc |-> "update", op |-> call.op, s |-> call.s, current |-> row]

\* A call starts: db.select().from(settings).
SettingsSelect ==
    \E c \in SettingsCalls :
        /\ calls[c].pc \in {"idle", "returned"}
        /\ \E call \in SettingsCallsMade :
              calls' = [calls EXCEPT ![c] =
                  IF Len(dbSettings) = 0
                  THEN [pc |-> "insert"] @@ call
                  ELSE afterGetSettings(call, dbSettings[1])]
        /\ UNCHANGED <<serverVars, watchlistPageVars, portfolioPageVars,
                       tradesPageVars, showAdd, route>>
        /\ UNCHANGED <<lastResponse, dbChat, chat, chartVars>>

\* rows.length === 0: db.insert(settings).values({...}).returning()
SettingsInsert ==
    \E c \in SettingsCalls :
        /\ calls[c].pc = "insert"
        /\ LET result == [id |-> identity.settings] @@ DefaultSettings
           IN  /\ dbSettings' = Append(dbSettings, result)
               /\ identity' = [identity EXCEPT !.settings = @ + 1]
               /\ calls' = [calls EXCEPT ![c] = afterGetSettings(@, result)]
        /\ UNCHANGED <<nodeEnv, dbWatchlist, dbPortfolio, dbTrades, dbAlerts,
                       patchBody>>
        /\ UNCHANGED <<watchlistPageVars, portfolioPageVars, tradesPageVars,
                       showAdd, route>>
        /\ UNCHANGED <<lastResponse, dbChat, chat, chartVars>>

\* db.update(settings).set(s).where(eq(settings.id, current.id)).returning()
SettingsUpdate ==
    \E c \in SettingsCalls :
        /\ calls[c].pc = "update"
        /\ LET s == calls[c].s
               set(row) == [f \in DOMAIN row |->
                               IF f \in DOMAIN s THEN s[f] ELSE row[f]]
               hit == {k \in 1..Len(dbSettings) :
                          dbSettings[k].id = calls[c].current.id}
           IN  /\ dbSettings' = [k \in 1..Len(dbSettings) |->
                      IF k \in hit THEN set(dbSettings[k]) ELSE dbSettings[k]]
               /\ calls' = [calls EXCEPT ![c] =
                      [pc |-> "returned", op |-> @.op,
                       result |-> IF hit = {} THEN Undefined
                                  ELSE set(dbSettings[CHOOSE k \in hit : TRUE])]]
        /\ UNCHANGED <<nodeEnv, dbWatchlist, dbPortfolio, dbTrades, dbAlerts,
                       identity, patchBody>>
        /\ UNCHANGED <<watchlistPageVars, portfolioPageVars, tradesPageVars,
                       showAdd, route>>
        /\ UNCHANGED <<lastResponse, dbChat, chat, chartVars>>

NextSettingsCalls ==
    \/ SettingsSelect
    \/ SettingsInsert
    \/ SettingsUpdate

SpecSettingsCalls == Init /\ [][NextSettingsCalls]_vars

-----------------------------------------------------------------------------
(* The alerts routes *)

\* Bodies of POST /api/alerts: complete, complete and read already, and
\* without a ticker.
AlertTD == [ticker |-> "TD.TO", signalType |-> "SELL",
            message |-> "Resistance", isRead |-> TRUE]
AlertBodies == {AlertRY, AlertTD, AlertNoTicker}

\* What leaves the alerts routes alone.
AlertsFrame ==
    /\ UNCHANGED <<nodeEnv, dbWatchlist, dbPortfolio, dbTrades, dbSettings,
                   patchBody>>
    /\ UNCHANGED <<watchlistPageVars, portfolioPageVars, tradesPageVars,
                   showAdd, route>>
    /\ UNCHANGED <<requestVars, chartVars>>

\* POST /api/alerts
PostApiAlerts ==
    \E body \in AlertBodies :
        LET request == [method |-> "POST", path |-> "/api/alerts",
                        body |-> body]
        IN
        /\ identity.alerts <= MaxId
        /\ IF ~alertAccepted(body)
           THEN /\ lastResponse' = AnswerTo(request, 400,
                       [message |-> "Validation error: Required"])
                /\ UNCHANGED <<dbAlerts, identity>>
           ELSE LET table == addAlert(dbAlerts, identity.alerts, body)
                IN  /\ dbAlerts' = table
                    /\ identity' = [identity EXCEPT !.alerts = @ + 1]
                    /\ lastResponse' =
                           AnswerTo(request, 200, table[Len(table)])
        /\ AlertsFrame

\* PATCH /api/alerts/:id/read, for the id of an alert or of no alert.
PatchApiAlertsRead ==
    \E id \in 0..identity.alerts :
        /\ dbAlerts' = markAlertRead(dbAlerts, id)
        /\ lastResponse' =
               AnswerTo(RequestId("PATCH", "/api/alerts/:id/read", id), 200,
                        [success |-> TRUE])
        /\ UNCHANGED identity
        /\ AlertsFrame

\* POST /api/alerts/read-all
PostApiAlertsReadAll ==
    /\ dbAlerts' = markAllAlertsRead(dbAlerts)
    /\ lastResponse' = AnswerTo(Request("POST", "/api/alerts/read-all"), 200,
                                [success |-> TRUE])
    /\ UNCHANGED identity
    /\ AlertsFrame

\* DELETE /api/alerts
DeleteApiAlerts ==
    /\ dbAlerts' = clearAlerts(dbAlerts)
    /\ lastResponse' = AnswerTo(Request("DELETE", "/api/alerts"), 200,
                                [success |-> TRUE])
    /\ UNCHANGED identity
    /\ AlertsFrame

\* const unreadCount = alerts?.filter(a => !a.isRead).length || 0
unreadCount(alerts) ==
    Cardinality({k \in 1..Len(alerts) : ~alerts[k].isRead})

NextAlerts ==
    \/ PostApiAlerts
    \/ PatchApiAlertsRead
    \/ PostApiAlertsReadAll
    \/ DeleteApiAlerts
    \/ PostApiSeed

SpecAlerts == Init /\ [][NextAlerts]_vars

-----------------------------------------------------------------------------
(* The watchlist and portfolio routes, with the bodies they refuse *)

\* A string of a request body (a number is Num).
Text(s) == [type |-> "string", value |-> s]

\* createInsertSchema(table).omit({ id, createdAt }): the type of each
\* column, and the columns a body must have (notNull without a default).
insertWatchlistSchema ==
    [columns |-> [ticker |-> "string", entryTarget |-> "number",
                  stopLoss |-> "number", takeProfit |-> "number",
                  signal |-> "string", sector |-> "string",
                  notes |-> "string"],
     required |-> {"ticker", "entryTarget", "stopLoss", "takeProfit"}]
insertPortfolioSchema ==
    [columns |-> [ticker |-> "string", shares |-> "number",
                  avgCost |-> "number", currentPrice |-> "number",
                  sector |-> "string"],
     required |-> {"ticker", "shares", "avgCost", "currentPrice"}]

\* schema.partial(): no column is required.
partial(schema) == [schema EXCEPT !.required = {}]

\* schema.safeParse(body): the keys that are no columns are stripped.
safeParse(schema, body) ==
    LET known == (DOMAIN body) \cap (DOMAIN schema.columns) IN
    IF /\ schema.required \subseteq DOMAIN body
       /\ \A f \in known : body[f].type = schema.columns[f]
    THEN [success |-> TRUE, data |-> [f \in known |-> body[f].value]]
    ELSE [success |-> FALSE]

\* The defaults of the columns a body may leave out.
watchlistRow(item) ==
    item @@ [signal |-> "WATCH", sector |-> "Other", notes |-> ""]
portfolioRow(item) == item @@ [sector |-> "Other"]

\* db.update(table).set(item).where(eq(table.id, id)).returning(): the table
\* after the update, and the first row returned (undefined when no row has
\* the id).
UpdateWhereId(db, id, item) ==
    LET set(row) == [f \in DOMAIN row |->
                        IF f \in DOMAIN item THEN item[f] ELSE row[f]]
        hit == {k \in 1..Len(db) : db[k].id = id}
    IN  [db |-> [k \in 1..Len(db) |->
                    IF k \in hit THEN set(db[k]) ELSE db[k]],
         result |-> IF hit = {} THEN Undefined
                    ELSE set(db[CHOOSE k \in hit : TRUE])]
updateWatchlistItem(db, id, item) == UpdateWhereId(db, id, item)
updatePortfolioItem_First(db, id, item) ==
    IF db = <<>> THEN UpdateWhereId(db, id, item)
    ELSE UpdateWhereId(db, db[1].id, item)
updatePortfolioItem(db, id, item) == UpdateWhereId(db, id, item)

deleteWatchlistItem(db, id) == SelectSeq(db, LAMBDA row : row.id # id)

\* Bodies of POST: complete, without a required column, and with a string
\* where a number belongs.
WatchlistPosts ==
    {[ticker |-> Text("ENB.TO"), entryTarget |-> Num(5200),
      stopLoss |-> Num(4950), takeProfit |-> Num(5700)],
     [ticker |-> Text("ENB.TO"), entryTarget |-> Num(5200),
      takeProfit |-> Num(5700)],
     [ticker |-> Text("ENB.TO"), entryTarget |-> Text("low"),
      stopLoss |-> Num(4950), takeProfit |-> Num(5700)]}
PortfolioPosts ==
    {[ticker |-> Text("BCE.TO"), shares |-> Num(100), avgCost |-> Num(4875),
      currentPrice |-> Num(4690), sector |-> Text("Telecom")],
     [ticker |-> Text("BCE.TO"), avgCost |-> Num(4875),
      currentPrice |-> Num(4690)]}

\* Bodies of PATCH: one column, and one column with a value of the wrong
\* type.
WatchlistPatches == {[signal |-> Text("BUY")], [stopLoss |-> Text("low")]}
PortfolioPatches == {[currentPrice |-> Num(4700)], [shares |-> Text("all")]}

\* What the watchlist routes leave alone, and the portfolio routes.
WatchlistFrame ==
    /\ UNCHANGED <<nodeEnv, dbPortfolio, dbTrades, dbAlerts, dbSettings,
                   patchBody>>
    /\ UNCHANGED <<watchlistPageVars, portfolioPageVars, tradesPageVars,
                   showAdd, route>>
    /\ UNCHANGED <<requestVars, chartVars>>
PortfolioFrame ==
    /\ UNCHANGED <<nodeEnv, dbWatchlist, dbTrades, dbAlerts, dbSettings,
                   patchBody>>
    /\ UNCHANGED <<watchlistPageVars, portfolioPageVars, tradesPageVars,
                   showAdd, route>>
    /\ UNCHANGED <<requestVars, chartVars>>

\* A request with an id and a body.
RequestBody(method, path, id, body) ==
    [method |-> method, path |-> path, id |-> id, body |-> body]

\* POST /api/watchlist
WatchlistPost ==
    \E body \in WatchlistPosts :
        LET request == RequestBody("POST", "/api/watchlist", 0, body)
            parsed == safeParse(insertWatchlistSchema, body)
        IN
        /\ IF ~parsed.success
           THEN /\ lastResponse' = AnswerTo(request, 400,
                       [message |-> "Validation error"])
                /\ UNCHANGED <<dbWatchlist, identity>>
           ELSE LET table == addWatchlistItem(dbWatchlist, identity.watchlist,
                                 watchlistRow(parsed.data))
                IN  /\ identity.watchlist <= MaxId
                    /\ dbWatchlist' = table
                    /\ identity' = [identity EXCEPT !.watchlist = @ + 1]
                    /\ lastResponse' =
                           AnswerTo(request, 200, table[Len(table)])
        /\ WatchlistFrame

\* PATCH /api/watchlist/:id
WatchlistPatch ==
    \E id \in 0..identity.watchlist, body \in WatchlistPatches :
        LET request == RequestBody("PATCH", "/api/watchlist/:id", id, body)
            parsed == safeParse(partial(insertWatchlistSchema), body)
        IN
        /\ IF ~parsed.success
           THEN /\ lastResponse' = AnswerTo(request, 400,
                       [message |-> "Validation error"])
                /\ UNCHANGED dbWatchlist
           ELSE LET done == updateWatchlistItem(dbWatchlist, id, parsed.data)
                IN  /\ dbWatchlist' = done.db
                    /\ lastResponse' =
                           IF done.result = Undefined
                           THEN AnswerTo(request, 404,
                                    [message |-> "Watchlist item not found"])
                           ELSE AnswerTo(request, 200, done.result)
        /\ UNCHANGED identity
        /\ WatchlistFrame

\* DELETE /api/watchlist/:id
WatchlistDelete ==
    \E id \in 0..identity.watchlist :
        /\ dbWatchlist' = deleteWatchlistItem(dbWatchlist, id)
        /\ lastResponse' =
               AnswerTo(RequestBody("DELETE", "/api/watchlist/:id", id, Null),
                        200, [success |-> TRUE])
        /\ UNCHANGED identity
        /\ WatchlistFrame

\* POST /api/portfolio
PortfolioPost ==
    \E body \in PortfolioPosts :
        LET request == RequestBody("POST", "/api/portfolio", 0, body)
            parsed == safeParse(insertPortfolioSchema, body)
        IN
        /\ IF ~parsed.success
           THEN /\ lastResponse' = AnswerTo(request, 400,
                       [message |-> "Validation error"])
                /\ UNCHANGED <<dbPortfolio, identity>>
           ELSE LET table == addPortfolioItem(dbPortfolio, identity.portfolio,
                                 portfolioRow(parsed.data))
                IN  /\ identity.portfolio <= MaxId
                    /\ dbPortfolio' = table
                    /\ identity' = [identity EXCEPT !.portfolio = @ + 1]
                    /\ lastResponse' =
                           AnswerTo(request, 200, table[Len(table)])
        /\ PortfolioFrame

\* PATCH /api/portfolio/:id
PortfolioPatch ==
    \E id \in 0..identity.portfolio, body \in PortfolioPatches :
        LET request == RequestBody("PATCH", "/api/portfolio/:id", id, body)
            parsed == safeParse(partial(insertPortfolioSchema), body)
        IN
        /\ IF ~parsed.success
           THEN /\ lastResponse' = AnswerTo(request, 400,
                       [message |-> "Validation error"])
                /\ UNCHANGED dbPortfolio
           ELSE LET done == updatePortfolioItem(dbPortfolio, id, parsed.data)
                IN  /\ dbPortfolio' = done.db
                    /\ lastResponse' =
                           IF done.result = Undefined
                           THEN AnswerTo(request, 404,
                                    [message |-> "Portfolio item not found"])
                           ELSE AnswerTo(request, 200, done.result)
        /\ UNCHANGED identity
        /\ PortfolioFrame

\* DELETE /api/portfolio/:id
PortfolioDelete ==
    \E id \in 0..identity.portfolio :
        /\ dbPortfolio' = deletePortfolioItem(dbPortfolio, id)
        /\ lastResponse' =
               AnswerTo(RequestBody("DELETE", "/api/portfolio/:id", id, Null),
                        200, [success |-> TRUE])
        /\ UNCHANGED identity
        /\ PortfolioFrame

NextWrites ==
    \/ WatchlistPost
    \/ WatchlistPatch
    \/ WatchlistDelete
    \/ PortfolioPost
    \/ PortfolioPatch
    \/ PortfolioDelete

SpecWrites == Init /\ [][NextWrites]_vars

-----------------------------------------------------------------------------
(* The stock-detail page: renders, effect runs, imports and cleanups *)

\* The stock-detail page leaves the rest of the program alone.
ChartFrame ==
    /\ UNCHANGED <<serverVars, lastResponse, requestVars>>
    /\ UNCHANGED <<watchlistPageVars, portfolioPageVars, tradesPageVars,
                   showAdd, route>>

\* A render is committed: the container div is there unless the query is
\* loading; when the dependencies changed, the last run's cleanup and then a
\* new run.
Commit(r) ==
    LET container == ~r.loading
        after == cleanup(effects, charts, chartRef)
    IN  /\ detail' = [detail EXCEPT !.activeTimeframe = r.activeTimeframe,
                                    !.chartData = r.chartData,
                                    !.loading = r.loading,
                                    !.container = container]
        /\ IF depsChanged(detail, r)
           THEN /\ Len(effects) < MaxRuns
                /\ effects' = Append(after.effects,
                                     effectRun(detail.instance, container))
                /\ charts' = after.charts
                /\ chartRef' = after.chartRef
           ELSE UNCHANGED <<effects, charts, chartRef>>

\* The page is mounted: new refs, the first render, the first run.
StockDetail ==
    /\ ~detail.mounted
    /\ Len(effects) < MaxRuns
    /\ \E r \in Renders :
          /\ r.activeTimeframe = DefaultTimeframe
          /\ detail' = [mounted |-> TRUE, instance |-> detail.instance + 1,
                        activeTimeframe |-> r.activeTimeframe,
                        chartData |-> r.chartData, loading |-> r.loading,
                        container |-> ~r.loading]
          /\ effects' = Append(effects,
                               effectRun(detail.instance + 1, ~r.loading))
    /\ chartRef' = NoChart
    /\ UNCHANGED charts
    /\ ChartFrame

\* A timeframe button: the query of the new key is loading, or has data.
setActiveTimeframe ==
    /\ detail.mounted
    /\ \E r \in Renders :
          /\ r.activeTimeframe # detail.activeTimeframe
          /\ Commit(r)
    /\ ChartFrame

\* The chart query of the current key gets data, gets new data, or fails.
ChartQuery ==
    /\ detail.mounted
    /\ \E r \in Renders :
          /\ r.activeTimeframe = detail.activeTimeframe
          /\ ~r.loading
          /\ r.chartData # detail.chartData \/ detail.loading
          /\ Commit(r)
    /\ ChartFrame

\* The import of a run resolves: the run returns, or removes the chart of
\* chartRef, creates its own and stores it in chartRef.
ImportResolved ==
    \E k \in 1..Len(effects) :
        /\ effects[k].pc = "import"
        /\ LET container == /\ detail.mounted
                            /\ detail.instance = effects[k].instance
                            /\ detail.container
           IN  IF returnsAfterImport(effects[k], container)
               THEN /\ effects' = [effects EXCEPT ![k].pc = "returned"]
                    /\ UNCHANGED <<charts, chartRef>>
               ELSE /\ effects' = [effects EXCEPT ![k].pc = "created"]
                    /\ charts' = Append(remove(charts, chartRef),
                                        [run |-> k, removed |-> FALSE])
                    /\ chartRef' = Len(charts) + 1
        /\ UNCHANGED detail
        /\ ChartFrame

\* The page is unmounted: the container is detached and the last run's
\* cleanup runs.
Unmount ==
    /\ detail.mounted
    /\ LET after == cleanup(effects, charts, chartRef) IN
          /\ effects' = after.effects
          /\ charts' = after.charts
          /\ chartRef' = after.chartRef
    /\ detail' = Unmounted(detail.instance)
    /\ ChartFrame

NextChart ==
    \/ StockDetail
    \/ setActiveTimeframe
    \/ ChartQuery
    \/ ImportResolved
    \/ Unmount

SpecChart == Init /\ [][NextChart]_vars

-----------------------------------------------------------------------------
(* The seed route, called again and again, with the pages that read the
   seeded tables *)

NextSeed ==
    \/ PostApiSeed
    \/ navigate
    \/ PortfolioQuery
    \/ TradesQuery
    \/ setCalcTicker
    \/ closeDialog

SpecSeed == Init /\ [][NextSeed]_vars

-----------------------------------------------------------------------------
(* Properties of the position sizer, under Spec *)

\* Every risk setting of the model: the settings form's values and the
\* default account size.
SettingsInputs ==
    {[accountSize |-> a, riskPercentage |-> r] :
        a \in AccountSizes \cup {2500000}, r \in RiskPercentages}

DialogOpen == calcTicker # Null /\ settings # Undefined
Figures == dialog.show = "figures"

\* C1: for an entry whose stopLoss is at or above its entryTarget the sizer
\* yields null for every account size and risk percentage, never sizing
\* figures, and the dialog shows the invalid-stop-loss message.
SizerRejectsInvalidStop ==
    /\ (DialogOpen /\ calcTicker.stopLoss >= calcTicker.entryTarget) =>
          /\ dialog.show = InvalidStopLoss
          /\ dialog.calc = Null
          /\ \A s \in SettingsInputs : calcRisk(calcTicker, s) = Null
    /\ Figures => calcTicker.stopLoss < calcTicker.entryTarget

InvalidStopShown ==
    /\ DialogOpen
    /\ calcTicker.stopLoss = calcTicker.entryTarget
    /\ dialog.show = InvalidStopLoss

\* C2: with entryTarget > stopLoss, accountSize > 0 and riskPercentage in
\* (0, 100], shares is the floor of riskAmount / riskPerShare where
\* riskAmount = accountSize * riskPercentage / 100: a non-negative integer
\* with shares * riskPerShare <= riskAmount < (shares + 1) * riskPerShare,
\* and 0 shares is a result, not null, when riskAmount < riskPerShare.
SizerSharesIsFloor ==
    (/\ DialogOpen
     /\ calcTicker.entryTarget > calcTicker.stopLoss
     /\ settings.accountSize > 0
     /\ settings.riskPercentage > 0
     /\ settings.riskPercentage <= 100) =>
        LET riskPerShare == calcTicker.entryTarget - calcTicker.stopLoss
            \* 100 * riskAmount, an integer
            risk100 == settings.accountSize * settings.riskPercentage
            n == dialog.calc.shares
        IN  /\ Figures
            /\ dialog.calc.riskAmount.num * 100 = risk100 * dialog.calc.riskAmount.den
            /\ n \in Nat
            /\ n * riskPerShare * 100 <= risk100
            /\ risk100 < (n + 1) * riskPerShare * 100
            /\ dialog.text.shares = n
            /\ (risk100 < riskPerShare * 100 => n = 0)

ZeroSharesSized ==
    /\ Figures
    /\ settings.accountSize > 0
    /\ dialog.calc.shares = 0
    /\ dialog.calc.riskAmount.num > 0

\* C3: for a fixed entry and risk percentage, a larger account size never
\* gives fewer shares and a smaller one never gives more.
SizerMonotoneInAccountSize ==
    Figures =>
        \A s \in SettingsInputs :
            s.riskPercentage = settings.riskPercentage =>
                LET other == calcRisk(calcTicker, s).shares IN
                /\ s.accountSize <= settings.accountSize
                      => other <= dialog.calc.shares
                /\ s.accountSize >= settings.accountSize
                      => other >= dialog.calc.shares

MoreSharesForLargerAccount ==
    /\ Figures
    /\ \E s \in SettingsInputs :
          /\ s.riskPercentage = settings.riskPercentage
          /\ s.accountSize < settings.accountSize
          /\ calcRisk(calcTicker, s).shares < dialog.calc.shares
          /\ calcRisk(calcTicker, s).shares > 0

\* The settings the page holds are those the last settings update sent.
SettingsFromPatch ==
    /\ patchBody # Null
    /\ settings # Undefined
    /\ settings.accountSize = patchBody.accountSize
    /\ settings.riskPercentage = patchBody.riskPercentage

\* C4 as stated: the flat fee is an input taken from the risk settings, so
\* totalCost = shares * entryTarget + the flatFeePerTrade supplied.
SizerFeeFromSettings ==
    (Figures /\ SettingsFromPatch) =>
        dialog.calc.totalCost =
            dialog.calc.shares * calcTicker.entryTarget
            + patchBody.flatFeePerTrade

\* C4 as amended: the commission is the fixed 6.95; a flatFeePerTrade
\* supplied with a settings update is dropped and changes nothing:
\* totalCost = shares * entryTarget + 6.95 in every result.
SizerFeeIsFixed ==
    /\ Figures =>
          /\ dialog.calc.totalCost =
                 dialog.calc.shares * calcTicker.entryTarget + 695
          /\ dialog.text.totalCost = dialog.calc.totalCost
    /\ \A k \in 1..Len(dbSettings) :
          "flatFeePerTrade" \notin DOMAIN dbSettings[k]

SizedAfterFeeSupplied ==
    /\ Figures
    /\ SettingsFromPatch
    /\ patchBody.flatFeePerTrade # 695
    /\ dialog.calc.shares > 0

\* C5: potentialProfit = shares * (takeProfit - entryTarget) - fee, not
\* clamped: negative whenever takeProfit < entryTarget or shares = 0, and
\* shown as computed.
SizerProfitUnclamped ==
    Figures =>
        LET pp == dialog.calc.potentialProfit IN
        /\ pp = dialog.calc.shares
                    * (calcTicker.takeProfit - calcTicker.entryTarget) - 695
        /\ calcTicker.takeProfit < calcTicker.entryTarget => pp < 0
        /\ dialog.calc.shares = 0 => pp < 0
        /\ dialog.text.potentialProfit = pp

LosingTargetSized ==
    /\ Figures
    /\ calcTicker.takeProfit < calcTicker.entryTarget
    /\ dialog.calc.shares > 0
    /\ dialog.text.potentialProfit < -695

\* C6: riskRewardRatio = (takeProfit - entryTarget) / (entryTarget -
\* stopLoss), not clamped: the same for every account size and risk
\* percentage, with the sign of takeProfit - entryTarget.
SizerRatioUnclamped ==
    Figures =>
        LET rr == dialog.calc.rr
            reward == calcTicker.takeProfit - calcTicker.entryTarget
            riskPerShare == calcTicker.entryTarget - calcTicker.stopLoss
        IN  /\ rr.den > 0
            /\ rr.num * riskPerShare = reward * rr.den
            /\ (rr.num < 0) = (reward < 0)
            /\ (rr.num = 0) = (reward = 0)
            /\ \A s \in SettingsInputs : calcRisk(calcTicker, s).rr = rr

NegativeRatioSized ==
    /\ Figures
    /\ calcTicker.takeProfit < calcTicker.entryTarget
    /\ dialog.calc.rr.num < 0
    /\ dialog.text.rr.num < 0

\* C7: the seeded RY.TO entry (145.50 / 140.00 / 158.00) under the default
\* settings (25000, 2 %) is sized at riskAmount 500.00, 90 shares, totalCost
\* 13101.95 and potentialProfit 1118.05, with ratio 12.50 / 5.50.
SeededRY ==
    /\ DialogOpen
    /\ calcTicker.ticker = "RY.TO"
    /\ calcTicker.entryTarget = 14550
    /\ calcTicker.stopLoss = 14000
    /\ calcTicker.takeProfit = 15800
    /\ settings.accountSize = 2500000
    /\ settings.riskPercentage = 2

SizerSeededScenario ==
    SeededRY =>
        /\ Figures
        /\ dialog.calc.riskAmount = RatInt(50000)
        /\ dialog.text.riskAmount = 50000
        /\ dialog.calc.shares = 90
        /\ dialog.calc.totalCost = 1310195
        /\ dialog.calc.potentialProfit = 111805
        /\ dialog.calc.rr.num * 550 = 1250 * dialog.calc.rr.den
        /\ dialog.text.rr = [num |-> 227, den |-> 100]

SeededRYSized ==
    /\ SeededRY
    /\ calcTicker \in {dbWatchlist[k] : k \in 1..Len(dbWatchlist)}
    /\ settings \in {dbSettings[k] : k \in 1..Len(dbSettings)}
    /\ patchBody = Null

-----------------------------------------------------------------------------
(* Properties of the portfolio page, under SpecPortfolio *)

\* The sum of shares * price over the first n positions of a list.
RECURSIVE SumTo(_, _, _)
SumTo(list, price, n) ==
    IF n = 0 THEN 0
    ELSE SumTo(list, price, n - 1) + list[n].shares * list[n][price]

\* C8: for a position with shares, avgCost and effective price >= 0 the
\* card's P&L is shares * price - shares * avgCost exactly, and its return is
\* pnl / costBasis * 100 when costBasis > 0 and 0 when costBasis = 0.
CardViewExact ==
    \A k \in 1..Len(cards) :
        LET item == portfolio.data[k]
            c == cards[k]
            costBasis == item.shares * item.avgCost
        IN  (item.shares >= 0 /\ item.avgCost >= 0 /\ c.currentPrice >= 0) =>
                /\ c.id = item.id
                /\ c.pnl = item.shares * c.currentPrice - costBasis
                /\ costBasis > 0 =>
                      /\ c.ret.den > 0
                      /\ c.ret.num * costBasis = c.pnl * 100 * c.ret.den
                /\ costBasis = 0 => c.ret = RatInt(0)

ZeroCostCardAtLivePrice ==
    \E k \in 1..Len(cards) :
        /\ cards[k].live
        /\ cards[k].currentPrice # portfolio.data[k].currentPrice
        /\ portfolio.data[k].shares > 0
        /\ cards[k].cost = 0
        /\ cards[k].pnl > 0
        /\ cards[k].ret = RatInt(0)

\* C9: over any collection of positions, also the empty one and the one not
\* loaded yet, totalValue and totalCost are the sums of shares * currentPrice
\* and shares * avgCost, totalPnl is their difference, and the total return
\* is 0 when totalCost = 0 and totalPnl / totalCost * 100 otherwise.
PortfolioTotalsExact ==
    LET list == IF portfolio.status = "success" THEN portfolio.data ELSE <<>>
        r == totals.totalReturn
    IN  /\ totals.totalValue = SumTo(list, "currentPrice", Len(list))
        /\ totals.totalCost = SumTo(list, "avgCost", Len(list))
        /\ totals.totalPnl = totals.totalValue - totals.totalCost
        /\ totals.totalCost = 0 => r = RatInt(0)
        /\ totals.totalCost # 0 =>
              /\ r.den > 0
              /\ r.num * totals.totalCost = totals.totalPnl * 100 * r.den

ZeroCostPortfolio ==
    /\ portfolio.status = "success"
    /\ Len(portfolio.data) >= 2
    /\ totals.totalCost = 0
    /\ totals.totalValue > 0
    /\ totals.totalPnl = totals.totalValue
    /\ totals.totalReturn = RatInt(0)

\* C10: each entry of the P&L ranking holds its position's unrealizedPnl and
\* returnPct(unrealizedPnl, shares * avgCost), as printed with two decimals;
\* so a position with no shares (costBasis 0) is ranked with a return of 0.
RankingUsesPrimitives ==
    portfolio.status = "success" =>
        LET entry(item) ==
                LET costBasis == item.shares * item.avgCost
                    unrealizedPnl == item.shares * item.currentPrice - costBasis
                IN  [ticker |-> item.ticker,
                     pnl |-> toFixedCents(RatInt(unrealizedPnl)),
                     returnPct |-> toFixed2(returnPct(unrealizedPnl, costBasis)),
                     fill |-> IF unrealizedPnl >= 0 THEN "#10b981"
                              ELSE "#ef4444"]
        IN  holdingsPnlData =
                SortByPnlDesc([k \in 1..Len(portfolio.data) |->
                                  entry(portfolio.data[k])])

-----------------------------------------------------------------------------
(* Properties of the trade journal page, under SpecTrades *)

\* The trades the page holds.
TradeList == IF trades.status = "success" THEN trades.data ELSE <<>>

\* Over the first n trades of a list, the sum of shares * price of the
\* trades of one date and type ("BUY", "SELL"), or of their fees ("fees").
RECURSIVE DateSum(_, _, _, _)
DateSum(list, n, date, what) ==
    IF n = 0 THEN 0
    ELSE DateSum(list, n - 1, date, what)
         + (IF list[n].date # date THEN 0
            ELSE IF what = "fees" THEN list[n].fees
            ELSE IF list[n].type = what THEN list[n].shares * list[n].price
            ELSE 0)

\* C11: the by-date rollup has exactly one bucket per distinct date of the
\* trades, and each bucket holds the sum of shares * price of that date's
\* BUY trades, of that date's SELL trades, and the sum of that date's fees;
\* two BUY trades {10 @ 5} and {2 @ 5} of one date give a single bucket with
\* buys 60 and sells 0.
DateRollupExact ==
    LET list == TradeList
        dates == {list[k].date : k \in 1..Len(list)}
        n == Len(list)
    IN  /\ Len(tradesByDate) = Cardinality(dates)
        /\ {tradesByDate[i].date : i \in 1..Len(tradesByDate)} = dates
        /\ \A i \in 1..Len(tradesByDate) :
              LET b == tradesByDate[i] IN
              /\ b.buys = DateSum(list, n, b.date, "BUY")
              /\ b.sells = DateSum(list, n, b.date, "SELL")
              /\ b.fees = DateSum(list, n, b.date, "fees")
        /\ (/\ n = 2
            /\ \A k \in 1..2 : /\ list[k].type = "BUY"
                               /\ list[k].date = "2026-01-01"
                               /\ list[k].price = 500
            /\ {list[1].shares, list[2].shares} = {2, 10})
           => /\ Len(tradesByDate) = 1
              /\ tradesByDate[1].date = "2026-01-01"
              /\ tradesByDate[1].buys = 6000
              /\ tradesByDate[1].sells = 0

TwoBuysOneBucket ==
    /\ Len(TradeList) = 2
    /\ \A k \in 1..2 : /\ TradeList[k].type = "BUY"
                       /\ TradeList[k].date = "2026-01-01"
    /\ TradeList[1].shares = 2
    /\ TradeList[2].shares = 10
    /\ Len(tradesByDate) = 1
    /\ tradesByDate[1].buys = 6000

\* The rollup of a list of trades given in any order.
RollupOf(list) == TradesByDateFrom(sortedTrades(list), 1, <<>>)

\* Other orders of a list: reversed, and rotated by every offset.
Reversed(list) == [k \in 1..Len(list) |-> list[Len(list) + 1 - k]]
Rotated(list, r) ==
    [k \in 1..Len(list) |-> list[((k - 1 + r) % Len(list)) + 1]]

StrictlyAscending(buckets) ==
    \A i \in 1..(Len(buckets) - 1) :
        DateRank(buckets[i].date) < DateRank(buckets[i + 1].date)

\* C12: the by-date rollup is strictly ascending in date, whatever the order
\* the trades come in (storage returns them newest first): no date is in two
\* buckets, and the same trades in another order give the same rollup.
DateRollupAscending ==
    LET list == TradeList IN
    /\ StrictlyAscending(tradesByDate)
    /\ tradesByDate = RollupOf(list)
    /\ RollupOf(Reversed(list)) = tradesByDate
    /\ \A r \in 1..(Len(list) - 1) : RollupOf(Rotated(list, r)) = tradesByDate

RollupOfUnorderedTrades ==
    /\ Len(tradesByDate) >= 3
    /\ Len(TradeList) > Len(tradesByDate)
    /\ TradeList = getTrades(dbTrades)
    /\ \E k \in 1..(Len(TradeList) - 1) :
          DateRank(TradeList[k].date) > DateRank(TradeList[k + 1].date)
    /\ \E k \in 1..(Len(TradeList) - 1) :
          DateRank(TradeList[k].date) < DateRank(TradeList[k + 1].date)

\* The sum of the fees of the first i buckets.
RECURSIVE BucketFees(_, _)
BucketFees(buckets, i) ==
    IF i = 0 THEN 0 ELSE BucketFees(buckets, i - 1) + buckets[i].fees

\* C13: the cumulative fee series has one point per bucket of the by-date
\* rollup, in the same ascending order; the value at a bucket is the sum of
\* the fees of the buckets up to it; with fees >= 0 the series never
\* decreases.
FeeSeriesCumulative ==
    /\ Len(feesOverTime) = Len(tradesByDate)
    /\ StrictlyAscending(feesOverTime)
    /\ \A i \in 1..Len(feesOverTime) :
          /\ feesOverTime[i].date = tradesByDate[i].date
          /\ feesOverTime[i].fees = BucketFees(tradesByDate, i)
    /\ (\A k \in 1..Len(TradeList) : TradeList[k].fees >= 0) =>
          \A i \in 1..(Len(feesOverTime) - 1) :
              feesOverTime[i].fees <= feesOverTime[i + 1].fees

FeeSeriesWithFreeTrade ==
    /\ Len(feesOverTime) >= 3
    /\ \E i \in 1..(Len(feesOverTime) - 1) :
          /\ feesOverTime[i].fees > 0
          /\ feesOverTime[i + 1].fees = feesOverTime[i].fees
    /\ \E i \in 1..(Len(feesOverTime) - 1) :
          feesOverTime[i + 1].fees > feesOverTime[i].fees

-----------------------------------------------------------------------------
(* Properties of the volume chart, under SpecVolume *)

\* The sum of shares * price over the trades of one ticker among the first
\* n trades of a list, whatever their type.
RECURSIVE TickerSum(_, _, _)
TickerSum(list, n, ticker) ==
    IF n = 0 THEN 0
    ELSE TickerSum(list, n - 1, ticker)
         + (IF list[n].ticker = ticker THEN list[n].shares * list[n].price
            ELSE 0)

TradedTickers == {TradeList[k].ticker : k \in 1..Len(TradeList)}

\* C14: the by-ticker rollup has one entry per distinct ticker, with the
\* sum of shares * price of all the ticker's trades, in non-increasing
\* volume order, and at most 10 entries; a ticker left out has a volume no
\* greater than that of any ticker kept.
TickerRollupTopTen ==
    LET list == TradeList
        n == Len(list)
        shown == {tickerData[i].ticker : i \in 1..Len(tickerData)}
    IN  /\ shown \subseteq TradedTickers
        /\ Cardinality(shown) = Len(tickerData)
        /\ Len(tickerData) <= 10
        /\ Cardinality(TradedTickers) <= 10 => shown = TradedTickers
        /\ Cardinality(TradedTickers) > 10 => Len(tickerData) = 10
        /\ \A i \in 1..Len(tickerData) :
              tickerData[i].volume = TickerSum(list, n, tickerData[i].ticker)
        /\ \A i \in 1..(Len(tickerData) - 1) :
              tickerData[i].volume >= tickerData[i + 1].volume
        /\ \A t \in TradedTickers \ shown :
              \A i \in 1..Len(tickerData) :
                  TickerSum(list, n, t) <= tickerData[i].volume

SmallestTickerLeftOut ==
    /\ Cardinality(TradedTickers) > 10
    /\ Len(tickerData) = 10
    /\ tickerData[1].volume > tickerData[10].volume
    /\ tickerData[1].ticker = TradeList[Len(TradeList)].ticker
    /\ TradeList[Len(TradeList)].type = "SELL"
    /\ \E k \in 1..Len(TradeList) :
          TradeList[k].ticker \notin
              {tickerData[i].ticker : i \in 1..Len(tickerData)}

-----------------------------------------------------------------------------
(* Properties of the sector chart, under SpecSectors *)

\* The positions the page holds.
PositionList == IF portfolio.status = "success" THEN portfolio.data ELSE <<>>

\* The category of a position: "Other" when its sector is unset or empty.
CategoryOf(p) ==
    IF "sector" \notin DOMAIN p THEN "Other"
    ELSE IF p.sector = "" THEN "Other"
    ELSE p.sector

\* The sum of shares * currentPrice over the positions of one category
\* among the first n positions of a list.
RECURSIVE CategorySum(_, _, _)
CategorySum(list, n, name) ==
    IF n = 0 THEN 0
    ELSE CategorySum(list, n - 1, name)
         + (IF CategoryOf(list[n]) = name
            THEN list[n].shares * list[n].currentPrice ELSE 0)

\* C15: in the by-sector rollup a position whose sector is unset or the
\* empty string counts under "Other", with the positions whose sector is
\* "Other"; there is one entry per category, none with an empty or null
\* name, and its value is the sum of shares * currentPrice of its positions.
SectorRollupDefaultsToOther ==
    LET list == PositionList
        names == {sectorChartData[i].name : i \in 1..Len(sectorChartData)}
    IN  /\ names = {CategoryOf(list[k]) : k \in 1..Len(list)}
        /\ Cardinality(names) = Len(sectorChartData)
        /\ names \cap {"", "null", "undefined"} = {}
        /\ \A i \in 1..Len(sectorChartData) :
              sectorChartData[i].value =
                  CategorySum(list, Len(list), sectorChartData[i].name)

UnsetAndEmptySectorUnderOther ==
    /\ \E k \in 1..Len(PositionList) : "sector" \notin DOMAIN PositionList[k]
    /\ \E k \in 1..Len(PositionList) :
          /\ "sector" \in DOMAIN PositionList[k]
          /\ PositionList[k].sector = ""
    /\ Len(sectorChartData) = 1
    /\ sectorChartData[1].name = "Other"
    /\ sectorChartData[1].value = totals.totalValue

-----------------------------------------------------------------------------
(* Properties of the live price, under SpecPortfolio *)

\* What the snapshot query of card k holds.
QuoteOf(k) == DataOf(snapshot[portfolio.data[k].ticker])

\* The live day close and last trade price of a quote; 0 when not present.
DayCloseOf(quote) ==
    IF "ticker" \notin DOMAIN quote THEN 0
    ELSE IF "c" \notin DOMAIN quote.ticker.day THEN 0
    ELSE quote.ticker.day.c
LastTradeOf(quote) ==
    IF "ticker" \notin DOMAIN quote THEN 0
    ELSE IF "p" \notin DOMAIN quote.ticker.lastTrade THEN 0
    ELSE quote.ticker.lastTrade.p

\* C16: a card's price is the live day close if present and non-zero, else
\* the live last trade price if present and non-zero, else the stored
\* currentPrice; the stored price is used only when neither live value is
\* present and non-zero, and the card's value is computed at that price.
PriceFallbackChain ==
    \A k \in 1..Len(cards) :
        LET item == portfolio.data[k]
            close == DayCloseOf(QuoteOf(k))
            last == LastTradeOf(QuoteOf(k))
            price == cards[k].currentPrice
        IN  /\ close # 0 => price = close
            /\ (close = 0 /\ last # 0) => price = last
            /\ (close = 0 /\ last = 0) => price = item.currentPrice
            /\ (price = item.currentPrice) <=> (close = 0 /\ last = 0)
            /\ cards[k].value = item.shares * price

LastTradeUsedForZeroClose ==
    \E k \in 1..Len(cards) :
        /\ "ticker" \in DOMAIN QuoteOf(k)
        /\ QuoteOf(k).ticker.day = [c |-> 0]
        /\ LastTradeOf(QuoteOf(k)) > 0
        /\ cards[k].currentPrice = LastTradeOf(QuoteOf(k))
        /\ portfolio.data[k].shares > 0

\* C17: while the quote is unavailable (the query is pending, the response
\* was not OK, or the snapshot has no ticker) the card is computed from the
\* stored currentPrice as if there were no quote, and in every state of the
\* quote fetch the card's price is a number.
MissingQuoteUsesStoredPrice ==
    \A k \in 1..Len(cards) :
        LET item == portfolio.data[k]
            c == cards[k]
            none == PortfolioItemCard(item, Pending)
        IN  /\ c.currentPrice \in Nat
            /\ "ticker" \notin DOMAIN QuoteOf(k) =>
                  /\ c.currentPrice = item.currentPrice
                  /\ c.value = item.shares * item.currentPrice
                  /\ c.cost = none.cost
                  /\ c.pnl = item.shares * item.currentPrice - c.cost
                  /\ c.ret = returnPct(c.pnl, c.cost)
                  /\ c.ret = none.ret

QuoteRefusedCard ==
    \E k \in 1..Len(cards) :
        /\ snapshot[portfolio.data[k].ticker] = Loaded(Null)
        /\ cards[k].value = 2 * portfolio.data[k].currentPrice
        /\ cards[k].pnl < 0

-----------------------------------------------------------------------------
(* Properties of the aggregations of both pages, under SpecPages *)

\* C18: every aggregation is a function of the records the page holds: a
\* render over the same trades gives the same by-date rollup, fee series
\* and by-ticker rollup, and a render over the same positions the same
\* totals, by-sector rollup and rankings, however many renders came before.
AggregationsIdempotent ==
    /\ [](/\ tradesByDate = RollupOf(TradeList)
          /\ \A i \in 1..Len(feesOverTime) :
                feesOverTime[i].fees = BucketFees(tradesByDate, i)
          /\ tickerData = TickerData(TradeList)
          /\ totals = Totals(portfolio)
          /\ sectorChartData = SectorChartData(portfolio)
          /\ holdingsPnlData = HoldingsPnlData(portfolio)
          /\ holdingsValueData = HoldingsValueData(portfolio))
    /\ [][/\ trades' = trades =>
                /\ tradesByDate' = tradesByDate
                /\ feesOverTime' = feesOverTime
                /\ tickerData' = tickerData
          /\ portfolio' = portfolio =>
                /\ totals' = totals
                /\ sectorChartData' = sectorChartData
                /\ holdingsPnlData' = holdingsPnlData
                /\ holdingsValueData' = holdingsValueData]_vars

RenderedAgainOverSeed ==
    /\ route = "/trades"
    /\ showAdd.trades
    /\ Len(TradeList) = Len(SeedTrades)
    /\ Len(PositionList) = Len(SeedPortfolio)
    /\ Len(feesOverTime) = Len(SeedTrades)
    /\ feesOverTime[Len(feesOverTime)].fees = Len(SeedTrades) * 695
    /\ Len(sectorChartData) = 3

\* C19: the aggregations leave the records the page holds as they were: a
\* render changes neither collection, a fetch leaves each as storage
\* returned it (newest first), and the trade history and the holdings are
\* listed in that order, not in the order of any rollup or ranking.
InputsNotMutated ==
    /\ [](/\ tradeRows = [k \in 1..Len(TradeList) |-> TradeList[k].id]
          /\ Len(cards) = Len(PositionList)
          /\ \A k \in 1..Len(cards) : cards[k].id = PositionList[k].id)
    /\ [][/\ trades' # trades => trades' = Loaded(getTrades(dbTrades'))
          /\ portfolio' # portfolio =>
                portfolio' = Loaded(getPortfolio(dbPortfolio'))
          /\ (showAdd' # showAdd \/ route' # route) =>
                (trades' = trades /\ portfolio' = portfolio)]_vars

HistoryInStorageOrder ==
    /\ route = "/portfolio"
    /\ showAdd.portfolio
    /\ Len(TradeList) >= 3
    /\ TradeList = getTrades(dbTrades)
    /\ sortedTrades(TradeList) # TradeList
    /\ tradesByDate[1].date = TradeList[Len(TradeList)].date
    /\ Len(PositionList) = Len(SeedPortfolio)
    /\ holdingsPnlData[1].ticker # PositionList[1].ticker
    /\ holdingsValueData[1].ticker # PositionList[1].ticker

-----------------------------------------------------------------------------
(* Properties of the trades table, under SpecTradeStore *)

TradeIds(table) == {table[k].id : k \in 1..Len(table)}

\* C20: a trade keeps every field for as long as it exists, and the set of
\* trades changes only by additions of records with fresh ids (one addTrade
\* each; the seed calls addTrade five times) and by the deletion of the
\* record of one id.
TradesImmutable ==
    /\ [](/\ Cardinality(TradeIds(dbTrades)) = Len(dbTrades)
          /\ \A id \in TradeIds(dbTrades) : id < identity.trades)
    /\ [][/\ \A i \in 1..Len(dbTrades), j \in 1..Len(dbTrades') :
                dbTrades[i].id = dbTrades'[j].id => dbTrades[i] = dbTrades'[j]
          /\ \/ dbTrades' = dbTrades
             \/ /\ Len(dbTrades') > Len(dbTrades)
                /\ SubSeq(dbTrades', 1, Len(dbTrades)) = dbTrades
                /\ \A j \in (Len(dbTrades) + 1)..Len(dbTrades') :
                      /\ dbTrades'[j].id >= identity.trades
                      /\ dbTrades'[j].id < identity'.trades
                /\ identity'.trades - identity.trades
                       = Len(dbTrades') - Len(dbTrades)
             \/ /\ Len(dbTrades') = Len(dbTrades) - 1
                /\ TradeIds(dbTrades') \subseteq TradeIds(dbTrades)
                /\ identity' = identity]_vars

TradeLoggedAndTradeDeleted ==
    /\ Len(dbTrades) >= 2
    /\ Len(dbTrades) < identity.trades - 1
    /\ \E k \in 1..Len(dbTrades) : "notes" \in DOMAIN dbTrades[k]
    /\ \E k \in 1..Len(dbTrades) : dbTrades[k].ticker = "SU.TO"

-----------------------------------------------------------------------------
(* Properties of the seed route, under SpecSeed *)

StoreEmpty ==
    /\ dbWatchlist = <<>>
    /\ dbPortfolio = <<>>
    /\ dbTrades = <<>>
    /\ dbAlerts = <<>>
    /\ dbSettings = <<>>
    /\ dbChat = <<>>

\* C22: in production every seed request is answered 403 and the store stays
\* empty; elsewhere, after any number of seed requests (one at least) the
\* store holds one copy of the seed data: 5 watchlist items, 4 positions,
\* 5 trades and 3 alerts, and nothing else.
SeedOnce ==
    /\ lastResponse = Null => StoreEmpty
    /\ nodeEnv = "production" =>
          /\ StoreEmpty
          /\ lastResponse # Null => lastResponse.status = 403
    /\ (nodeEnv # "production" /\ lastResponse # Null) =>
          /\ lastResponse.status = 200
          /\ Len(dbWatchlist) = 5 /\ Len(dbPortfolio) = 4
          /\ Len(dbTrades) = 5 /\ Len(dbAlerts) = 3
          /\ dbWatchlist = InsertAll(<<>>, 1, SeedWatchlist)
          /\ dbPortfolio = InsertAll(<<>>, 1, SeedPortfolio)
          /\ dbTrades = InsertAll(<<>>, 1, SeedTrades)
          /\ dbAlerts = InsertAll(<<>>, 1, SeedAlerts)
          /\ dbSettings = <<>>
          /\ dbChat = <<>>

SeedRequestedAgain ==
    /\ lastResponse # Null
    /\ lastResponse.status = 200
    /\ lastResponse.body.message = "Data already seeded"
    /\ Len(dbWatchlist) = 5

-----------------------------------------------------------------------------
(* Properties of POST /api/chat, under SpecChat *)

\* The requests that got a reply, and the alerts block of the reply.
Replied(r) == chat[r].pc \in {"save", "done"} /\ "reply" \in DOMAIN chat[r]
BlockOf(r) == alertMatch(chat[r].reply)

\* The elements of the block's array; none when the block's JSON does not
\* parse or is not an array.
ElementsOf(r) ==
    LET parsed == JSONparse(BlockOf(r).group) IN
    IF parsed.ok /\ parsed.value.type = "array" THEN parsed.value.elements
    ELSE <<>>

\* The reply outside of its block, part by part.
Outside(text, m) ==
    [k \in 1..(Len(text) - (m.to - m.from + 1)) |->
        IF k < m.from THEN text[k] ELSE text[k + (m.to - m.from + 1)]]

\* text is rest without the white space at its two ends.
Trimmed(text, rest) ==
    /\ text = <<>> \/ (text[1].kind # "space" /\ text[Len(text)].kind # "space")
    /\ \E lead \in 0..Len(rest) :
          /\ lead + Len(text) <= Len(rest)
          /\ \A k \in 1..Len(rest) :
                IF k > lead /\ k <= lead + Len(text)
                THEN rest[k] = text[k - lead]
                ELSE rest[k].kind = "space"

\* The alert with an id.
AlertWithId(id) ==
    LET at == {k \in 1..Len(dbAlerts) : dbAlerts[k].id = id} IN
    IF at = {} THEN Null ELSE dbAlerts[CHOOSE k \in at : TRUE]

\* The alerts of request r are those of the first n elements of its block.
AlertsAdded(r, n) ==
    /\ Len(chat[r].added) = n
    /\ \A k \in 1..n :
          LET row == AlertWithId(chat[r].added[k])
              a == ElementsOf(r)[k]
          IN  /\ row # Null
              /\ row.isRead = FALSE
              /\ row.ticker = a.ticker
              /\ row.signalType = a.signalType
              /\ row.message = a.message
              /\ row.urgency =
                     IF "urgency" \in DOMAIN a THEN a.urgency ELSE "medium"

\* The assistant message of request r is saved without the block.
SavedWithoutBlock(r) ==
    chat[r].pc = "done" =>
        /\ \E k \in 1..Len(dbChat) : dbChat[k] = chat[r].saved
        /\ chat[r].saved.role = "assistant"
        /\ Trimmed(chat[r].saved.content, Outside(chat[r].reply, BlockOf(r)))

\* How many elements come before the first one that has no ticker, no
\* signalType or no message.
RECURSIVE AcceptedPrefix(_)
AcceptedPrefix(elements) ==
    IF elements = <<>> THEN 0
    ELSE IF {"ticker", "signalType", "message"} \subseteq DOMAIN Head(elements)
    THEN 1 + AcceptedPrefix(Tail(elements))
    ELSE 0

-----------------------------------------------------------------------------
(* Properties of the headline totals against the cards, under SpecPortfolio *)

RECURSIVE CardSum(_, _, _)
CardSum(list, field, n) ==
    IF n = 0 THEN 0 ELSE CardSum(list, field, n - 1) + list[n][field]

\* C23: the totals agree with the cards rendered with them: totalValue is
\* the sum of the cards' market values (shares times the price after the
\* live-quote fallback) and totalPnl the sum of the cards' P&L.
TotalsMatchCards ==
    /\ totals.totalValue = CardSum(cards, "value", Len(cards))
    /\ totals.totalPnl = CardSum(cards, "pnl", Len(cards))

-----------------------------------------------------------------------------
(* Properties of the headline totals of the journal, under SpecJournal *)

RECURSIVE BucketSum(_, _, _)
BucketSum(buckets, field, n) ==
    IF n = 0 THEN 0 ELSE BucketSum(buckets, field, n - 1) + buckets[n][field]

\* C24: the by-date rollup conserves the headline totals: the buys of all
\* buckets add up to totalBought, the sells to totalSold, and the bucket
\* fees, which is the last point of the cumulative fee series, to totalFees.
RollupConservesTotals ==
    /\ BucketSum(tradesByDate, "buys", Len(tradesByDate))
           = tradeTotals.totalBought
    /\ BucketSum(tradesByDate, "sells", Len(tradesByDate))
           = tradeTotals.totalSold
    /\ BucketSum(tradesByDate, "fees", Len(tradesByDate))
           = tradeTotals.totalFees
    /\ feesOverTime # <<>> =>
           feesOverTime[Len(feesOverTime)].fees = tradeTotals.totalFees

-----------------------------------------------------------------------------
(* Properties of the settings table, under SpecSettings *)

SettingsDefaults ==
    [accountSize |-> 2500000, riskPercentage |-> 2, email |-> "",
     analysisInterval |-> 60]

\* The value of a column after a request with a body, given its value before.
AfterBody(body, f, before) ==
    IF body # Null /\ f \in DOMAIN body THEN body[f] ELSE before

\* C25: the settings table holds no row before the first getSettings or
\* updateSettings call and one row after any call; the first call creates
\* the row with accountSize 25000, riskPercentage 2, email "" and
\* analysisInterval 60; no later call creates a row, and updateSettings
\* changes the fields it is given, on that row, and no other.
SettingsSingleton ==
    /\ [](/\ Len(dbSettings) <= 1
          /\ Len(dbSettings) = identity.settings - 1
          /\ (settings # Undefined \/ patchBody # Null) => Len(dbSettings) = 1)
    /\ [][/\ dbSettings' # dbSettings => Len(dbSettings') = 1
          /\ (dbSettings = <<>> /\ dbSettings' # <<>>) =>
                /\ dbSettings'[1].id = 1
                /\ \A f \in SettingsColumns :
                      dbSettings'[1][f] =
                          IF patchBody' = patchBody THEN SettingsDefaults[f]
                          ELSE AfterBody(patchBody', f, SettingsDefaults[f])
          /\ (dbSettings # <<>> /\ dbSettings' # dbSettings) =>
                /\ dbSettings'[1].id = dbSettings[1].id
                /\ DOMAIN dbSettings'[1] = DOMAIN dbSettings[1]
                /\ \A f \in SettingsColumns :
                      dbSettings'[1][f] =
                          AfterBody(patchBody', f, dbSettings[1][f])]_vars

OneFieldUpdated ==
    /\ Len(dbSettings) = 1
    /\ patchBody = [accountSize |-> 50]
    /\ dbSettings[1].accountSize = 50
    /\ dbSettings[1].riskPercentage = 10
    /\ dbSettings[1].email = "me@example.com"
    /\ dbSettings[1].analysisInterval = 15

-----------------------------------------------------------------------------
(* Properties of overlapping settings calls, under SpecSettingsCalls *)

\* C26: with calls of getSettings and updateSettings in progress together
\* on a table that was empty, the table holds one row at most, and the
\* calls that have returned have returned the same row.
SettingsSingletonOverlapping ==
    /\ Len(dbSettings) <= 1
    /\ \A c, d \in SettingsCalls :
          (calls[c].pc = "returned" /\ calls[d].pc = "returned") =>
              calls[c].result.id = calls[d].result.id

-----------------------------------------------------------------------------
(* Properties of the alerts table, under SpecAlerts *)

AlertIds(table) == {table[k].id : k \in 1..Len(table)}

\* The request that a step answers.
Asked(method, path) ==
    /\ lastResponse'.request.method = method
    /\ lastResponse'.request.path = path

\* C27: an alert is created unread unless its body says otherwise; marking
\* one alert read sets isRead on the alert with that id and changes nothing
\* else (nothing at all for an id no alert has); marking all read sets it on
\* every alert; no alert goes from read back to unread, and the unread count
\* grows only in a step that adds an alert.
AlertsReadMonotone ==
    [][dbAlerts' # dbAlerts =>
        /\ \A i \in 1..Len(dbAlerts), j \in 1..Len(dbAlerts') :
              dbAlerts[i].id = dbAlerts'[j].id =>
                  /\ dbAlerts[i].isRead => dbAlerts'[j].isRead
                  /\ [dbAlerts'[j] EXCEPT !.isRead = dbAlerts[i].isRead]
                         = dbAlerts[i]
        /\ Asked("PATCH", "/api/alerts/:id/read") =>
              /\ Len(dbAlerts') = Len(dbAlerts)
              /\ \A k \in 1..Len(dbAlerts) :
                    /\ dbAlerts'[k].id = dbAlerts[k].id
                    /\ dbAlerts[k].id = lastResponse'.request.id =>
                          dbAlerts'[k].isRead
                    /\ dbAlerts[k].id # lastResponse'.request.id =>
                          dbAlerts'[k] = dbAlerts[k]
        /\ Asked("POST", "/api/alerts/read-all") =>
              /\ Len(dbAlerts') = Len(dbAlerts)
              /\ \A k \in 1..Len(dbAlerts) :
                    /\ dbAlerts'[k].id = dbAlerts[k].id
                    /\ dbAlerts'[k].isRead
        /\ Asked("POST", "/api/alerts") =>
              /\ Len(dbAlerts') = Len(dbAlerts) + 1
              /\ SubSeq(dbAlerts', 1, Len(dbAlerts)) = dbAlerts
              /\ dbAlerts'[Len(dbAlerts')].id \notin AlertIds(dbAlerts)
              /\ dbAlerts'[Len(dbAlerts')].isRead =
                     ("isRead" \in DOMAIN lastResponse'.request.body
                         /\ lastResponse'.request.body.isRead)
        /\ Asked("POST", "/api/seed") =>
              /\ Len(dbAlerts') = Len(dbAlerts) + 3
              /\ SubSeq(dbAlerts', 1, Len(dbAlerts)) = dbAlerts
              /\ \A k \in (Len(dbAlerts) + 1)..Len(dbAlerts') :
                    ~dbAlerts'[k].isRead
        /\ unreadCount(getAlerts(dbAlerts')) > unreadCount(getAlerts(dbAlerts))
              => AlertIds(dbAlerts') \ AlertIds(dbAlerts) # {}
      ]_vars

OneAlertMarkedRead ==
    /\ lastResponse # Null
    /\ lastResponse.request.path = "/api/alerts/:id/read"
    /\ Len(dbAlerts) = 5
    /\ unreadCount(getAlerts(dbAlerts)) = 3
    /\ \E k \in 1..Len(dbAlerts) :
          /\ dbAlerts[k].id = lastResponse.request.id
          /\ dbAlerts[k].isRead
          /\ dbAlerts[k].ticker # "TD.TO"

-----------------------------------------------------------------------------
(* Properties of the chat history, under SpecChat *)

\* Where a message is in the stored chat order.
ChatPosition(row) ==
    LET history == getChatMessages(dbChat)
        at == {k \in 1..Len(history) : history[k].id = row.id}
    IN  IF at = {} THEN 0 ELSE CHOOSE k \in at : TRUE

\* The messages a request has appended so far.
AppendedBy(r) ==
    IF "saved" \in DOMAIN chat[r] THEN 2
    ELSE IF "user" \in DOMAIN chat[r] THEN 1
    ELSE 0

\* A request answered 400 had no usable message and appended nothing; any
\* other request appends its trimmed message as the user's and then one
\* assistant message.
ChatAppendsPair ==
    /\ Len(dbChat) = AppendedBy(1) + AppendedBy(2)
    /\ \A r \in ChatRequests :
          chat[r].pc = "done" =>
              IF chat[r].answer.status = 400
              THEN /\ AppendedBy(r) = 0
                   /\ \/ "message" \notin DOMAIN chat[r].body
                      \/ chat[r].body.message.type # "string"
                      \/ \A k \in 1..Len(chat[r].body.message.parts) :
                            chat[r].body.message.parts[k].kind = "space"
              ELSE /\ AppendedBy(r) = 2
                   /\ chat[r].body.message.type = "string"
                   /\ chat[r].user.role = "user"
                   /\ chat[r].user.content # <<>>
                   /\ Trimmed(chat[r].user.content,
                              chat[r].body.message.parts)
                   /\ chat[r].saved.role = "assistant"
                   /\ chat[r].answer.body = chat[r].saved
                   /\ ChatPosition(chat[r].user) > 0
                   /\ ChatPosition(chat[r].saved) > ChatPosition(chat[r].user)

\* C28: every request with a usable message appends two messages, its
\* trimmed message and then one assistant message, on every path, and a
\* request without one is answered 400 and appends nothing; with two
\* requests in flight together, each assistant message comes directly after
\* its own user message in the stored chat order.
ChatPairsAdjacent ==
    /\ ChatAppendsPair
    /\ \A r \in ChatRequests :
          (chat[r].pc = "done" /\ chat[r].answer.status = 200) =>
              ChatPosition(chat[r].saved) = ChatPosition(chat[r].user) + 1

-----------------------------------------------------------------------------
(* C29: writes that fail *)

Stores == <<dbWatchlist, dbPortfolio, dbTrades, dbAlerts, dbSettings, dbChat>>

IdsOf(db) == {db[k].id : k \in 1..Len(db)}

Without(db, id) == SelectSeq(db, LAMBDA row : row.id # id)

\* The table a request is about, before the request.
TableOf(request) ==
    IF request.path \in {"/api/watchlist", "/api/watchlist/:id"}
    THEN dbWatchlist ELSE dbPortfolio

\* The body lacks a required column or has a value of the wrong type.
Invalid(request) ==
    LET schema == IF request.path \in {"/api/watchlist", "/api/watchlist/:id"}
                  THEN insertWatchlistSchema ELSE insertPortfolioSchema
        body == request.body
    IN  \/ /\ request.method = "POST"
           /\ \E f \in schema.required : f \notin DOMAIN body
        \/ \E f \in DOMAIN body :
              f \in DOMAIN schema.columns /\ body[f].type # schema.columns[f]

-----------------------------------------------------------------------------
(* C30: the chart of the stock-detail page *)

Live == {c \in 1..Len(charts) : ~charts[c].removed}

\* C30: at most one chart is created and not removed at any time, the run
\* that creates a chart is one whose cleanup has not executed, and once the
\* page is unmounted no chart is left that is not removed.
OneLiveChart ==
    /\ [](Cardinality(Live) <= 1)
    /\ [](~detail.mounted => Live = {})
    /\ [][Len(charts') > Len(charts) =>
            /\ Len(charts') = Len(charts) + 1
            /\ ~effects[charts'[Len(charts')].run].cancelled
            /\ effects[charts'[Len(charts')].run].pc = "import"
            /\ \A c \in 1..Len(charts) : charts'[c].removed]_vars

\* A run created its chart although an earlier run, cancelled since, was
\* still importing when it started.
ChartAfterCancelledRun ==
    \E c \in Live, k \in 1..Len(effects) :
        /\ k < charts[c].run
        /\ effects[k].cancelled
        /\ effects[k].pc = "returned"
        /\ effects[k].instance = effects[charts[c].run].instance

=============================================================================
